---- MODULE Spec2Model ----
(***************************************************************************)
(* violet.nvim: the edit-prediction controller (edit-prediction.ts) and    *)
(* the notification handlers of index.ts that drive it, together with the  *)
(* part of the Neovim host the controller talks to.                        *)
(*                                                                         *)
(* Every invocation of a notification handler is a task.  A task runs      *)
(* atomically from one `await` of an I/O operation to the next (JavaScript *)
(* is single-threaded); an action of this module is one such segment.  A   *)
(* host call `await nvim.call(...)` is a suspension point: the action that *)
(* resumes the task first performs the call's effect on the host and then  *)
(* runs the task's continuation up to its next suspension point.  Awaits   *)
(* that resolve without I/O (an early `return` of an async method) do not  *)
(* let another handler run and are not suspension points.  Host calls are  *)
(* assumed to succeed.  Under Spec the outstanding host calls are answered *)
(* in any order; under SpecInOrder the host executes them in the order in  *)
(* which call() of nvim.ts wrote them to the socket.                       *)
(*                                                                         *)
(* Text is a sequence of characters, a character is a one-letter string.   *)
(***************************************************************************)
EXTENDS Integers, Sequences, FiniteSets, TLC

\* ------------------------------------------------------------------ bounds
MaxTasks == 3
MaxActive == 2
MaxHostEvents == 1
MaxDiffOps == 1
MaxFindLen == 3
MaxTextLen == 2
MaxLines == 33
MaxChanges == 3
MaxAdds == 5
MaxParts == 4
MaxReqId == 4
MaxInbound == 5
MaxHandlers == 2
MaxNotifies == 1
MaxEditLines == 3
MaxEdits == 2
MaxLuaCalls == 5
MaxCallbacks == 5
MaxPosLen == 4
MaxStartLine == 2
\* the adds past its capacity that the default change history is driven to
Overflow == 50

\* ------------------------------------------------------- program constants
ContextBefore == 10
ContextAfter == 20
NL == "\n"
DEFAULT_RECENT_CHANGE_TOKEN_BUDGET == 1000
CharsPerToken == 3
DefaultMaxChanges == 200
\* MessageType
REQUEST == 0
RESPONSE == 1
NOTIFY == 2
Marker == "|"

\* ---------------------------------------------------------------- strings
Min(a, b) == IF a < b THEN a ELSE b
Max(a, b) == IF a > b THEN a ELSE b

\* text.slice(from, to) with 0 <= from, to
Slice(text, from, to) == SubSeq(text, from + 1, Min(to, Len(text)))

\* text.slice(from)
SliceFrom(text, from) == SubSeq(text, from + 1, Len(text))

\* does pat occur in text at 0-based offset i
MatchAt(text, pat, i) ==
  /\ i + Len(pat) <= Len(text)
  /\ \A k \in 1..Len(pat) : text[i + k] = pat[k]

\* String.prototype.indexOf: the first offset of pat in text, or -1
IndexOf(text, pat) ==
  LET hits == {i \in 0..Len(text) : MatchAt(text, pat, i)}
  IN IF hits = {} THEN -1 ELSE CHOOSE i \in hits : \A j \in hits : i <= j

\* String.prototype.includes
Includes(text, pat) == IndexOf(text, pat) # -1

\* lines.join(sep)
RECURSIVE Join(_, _)
Join(parts, sep) ==
  IF parts = <<>> THEN <<>>
  ELSE IF Len(parts) = 1 THEN parts[1]
  ELSE parts[1] \o sep \o Join(Tail(parts), sep)

\* text.split(sep) for a non-empty separator: the pieces between the
\* non-overlapping occurrences of sep, found left to right
RECURSIVE SplitNonEmpty(_, _)
SplitNonEmpty(text, sep) ==
  LET i == IndexOf(text, sep)
  IN IF i = -1 THEN <<text>>
     ELSE <<Slice(text, 0, i)>> \o SplitNonEmpty(SliceFrom(text, i + Len(sep)), sep)

\* text.split(sep); an empty separator splits into single characters
Split(text, sep) ==
  IF sep = <<>> THEN [k \in 1..Len(text) |-> <<text[k]>>]
  ELSE SplitNonEmpty(text, sep)

\* findText.replace(/|/g, "")
RECURSIVE StripMarker(_)
StripMarker(text) ==
  IF text = <<>> THEN <<>>
  ELSE IF Head(text) = Marker THEN StripMarker(Tail(text))
  ELSE <<Head(text)>> \o StripMarker(Tail(text))

\* ------------------------------------------------------- pure controller code
convertCharPosToLineCol_ColOfFirstLine(text, charPos, startLine, startCol) ==
  LET lines == Split(Slice(text, 0, charPos), <<NL>>)
  IN [row |-> startLine + Len(lines) - 1,
      col |-> startCol + Len(lines[1])]

\* convertCharPosToLineCol
convertCharPosToLineCol(text, charPos, startLine, startCol) ==
  LET lines == Split(Slice(text, 0, charPos), <<NL>>)
  IN [row |-> startLine + Len(lines) - 1,
      col |-> IF Len(lines) = 1 THEN startCol + Len(lines[1])
              ELSE Len(lines[Len(lines)])]

resolveFindText_NoFallback(findText, contextText) ==
  IF Includes(contextText, findText) THEN [ok |-> TRUE, text |-> findText]
  ELSE [ok |-> FALSE, text |-> <<>>]

\* resolveFindText: ok = FALSE stands for the thrown Error
resolveFindText(findText, contextText) ==
  IF Includes(contextText, findText) THEN [ok |-> TRUE, text |-> findText]
  ELSE IF Includes(findText, <<Marker>>) /\ Includes(contextText, StripMarker(findText))
    THEN [ok |-> TRUE, text |-> StripMarker(findText)]
  ELSE [ok |-> FALSE, text |-> <<>>]

\* contextText.split(findText).join(prediction.replace)
replacedText(contextText, findText, replace) ==
  Join(Split(contextText, findText), replace)

\* replacedText === "" ? [] : replacedText.split("\n")
replacedLines(text) == IF text = <<>> THEN <<>> ELSE Split(text, <<NL>>)

\* ------------------------------------------------------------------- host
\* nvim_buf_get_lines(buf, start, end, strict_indexing = false)
BufGetLines(lines, start, end) ==
  SubSeq(lines, Min(start, Len(lines)) + 1, Min(end, Len(lines)))

BufSetLines_ToEndOfBuffer(lines, start, end, repl) ==
  LET out == SubSeq(lines, 1, Min(start, Len(lines))) \o repl
  IN IF out = <<>> THEN <<(<<>>)>> ELSE out

\* nvim_buf_set_lines(buf, start, end, strict_indexing = false, repl);
\* a buffer never has fewer than one line
BufSetLines(lines, start, end, repl) ==
  LET s == Min(start, Len(lines))
      e == Max(s, Min(end, Len(lines)))
      out == SubSeq(lines, 1, s) \o repl \o SubSeq(lines, e + 1, Len(lines))
  IN IF out = <<>> THEN <<(<<>>)>> ELSE out


\* ------------------------------------------------------------ model inputs
Bufs == {1, 2}
NsId == 7

A == <<"a">>
B == <<"b">>

\* the contents a buffer can have
BufContents == { <<A, A>>, <<A>>, <<A, B>> }

\* the predictions the model can answer with (PredictEditInput)
Predictions ==
  { [find |-> <<"a">>, replace |-> <<"b">>],
    [find |-> <<"a">>, replace |-> <<"b", NL, "b">>],
    [find |-> <<Marker, "a">>, replace |-> <<"b">>],
    [find |-> <<"c">>, replace |-> <<"b">>] }

\* ------------------------------------------------------------------ state
VARIABLES
  state,             \* EditPredictionController.state
  namespaceId,       \* EditPredictionController.namespaceId, 0 is null
  renderedBufferId,  \* EditPredictionController.renderedBufferId, 0 is null
  requestCounter,    \* EditPredictionController.requestCounter
  tasks,             \* the handler invocations: locals and suspension point
  nTasks,            \* number of notifications dispatched so far
  bufLines,          \* host: the lines of each buffer
  curBuf,            \* host: the buffer of the current window
  cursor,            \* host: cursor of the current window, <<row (1-based), col>>
  mode,              \* host: "n" or "i"
  marks,             \* host: the extmarks of the prediction namespace per buffer
  escMap,            \* host: M._prediction.esc_mappings
  txtListen,         \* host: M._prediction.text_changed_autocmds
  predActive,        \* host: M._prediction.active
  hostEvents,        \* number of user actions in the host so far
  inOrder,           \* host: requests are executed in the order they were sent
  queue,             \* host: the tasks whose request is not executed yet, in order
  call,              \* a function applied to given arguments and its result, or
                     \* the change history examined on its own
  session            \* the RPC session of attach() examined on its own

ctlVars == <<state, namespaceId, renderedBufferId, requestCounter>>
hostVars == <<bufLines, curBuf, cursor, mode, marks, escMap, txtListen, predActive>>
vars == <<state, namespaceId, renderedBufferId, requestCounter, tasks, nTasks,
          bufLines, curBuf, cursor, mode, marks, escMap, txtListen, predActive,
          hostEvents, inOrder, queue, call, session>>

\* CapturedContext; bufferId 0 stands for "no context"
NoContext ==
  [contextLines |-> <<>>, cursorDelta |-> 0, cursorCol |-> 0, bufferName |-> 0,
   bufferId |-> 0, startLine |-> 0, endLine |-> 0, totalLines |-> 0]

NoPrediction == [find |-> <<>>, replace |-> <<>>]

\* PredictionState
IdleState ==
  [type |-> "idle", requestId |-> 0, context |-> NoContext, prediction |-> NoPrediction]

AwaitingState(requestId, context) ==
  [type |-> "awaiting-agent-reply", requestId |-> requestId, context |-> context,
   prediction |-> NoPrediction]

DisplayingState(context, prediction) ==
  [type |-> "displaying-proposed-edit", requestId |-> 0, context |-> context,
   prediction |-> prediction]

ApplyingState(context, prediction) ==
  [type |-> "prediction-being-applied", requestId |-> 0, context |-> context,
   prediction |-> prediction]

\* a task: the notification it handles, its suspension point (pc), the caller
\* of the helper it is suspended in (ret) and its local variables
NoTask ==
  [kind |-> "none", bufnr |-> 0, pc |-> "none", ret |-> "none", requestId |-> 0,
   bufferId |-> 0, cursor |-> <<0, 0>>, totalLines |-> 0, context |-> NoContext,
   prediction |-> NoPrediction, reply |-> "none", clearBuf |-> 0, targetBufnr |-> 0,
   currentLines |-> <<>>, todo |-> 0, result |-> "none"]

\* the handler returned at its end ("ok"), at an early return of an entry
\* ("noop", "ignored" for the buffer check of dismissPrediction) or at the
\* stale check ("stale"), or it threw (the Error's message)
Finished(tk, result) ==
  [NoTask EXCEPT !.kind = tk.kind, !.pc = "done", !.result = result]

Ctl == [state |-> state, namespaceId |-> namespaceId,
        renderedBufferId |-> renderedBufferId, requestCounter |-> requestCounter]

\* the suspension points at a host call (the others are the awaits of log
\* and of the model request): Neovim executes the requests of the channel in
\* the order received
OrderedPcs ==
  {"c_buf", "c_cursor", "c_count", "c_name", "c_lines", "i_ns", "i_mark", "clr_ns",
   "clr_active", "cl_esc", "cl_txt", "f_notify", "s_mode", "s_esc", "s_txt",
   "p_mark", "p_active", "a_lines", "a_set", "a_cursor"}

\* the queue after task t went from suspension point pc to the task record tk
Requeued(t, pc, tk) ==
  LET rest == IF pc \in OrderedPcs THEN Tail(queue) ELSE queue
  IN IF ~inOrder THEN queue
     ELSE IF tk.pc \in OrderedPcs THEN Append(rest, t) ELSE rest

\* the controller's fields and the task t after a segment
Becomes(t, r) ==
  /\ (inOrder /\ tasks[t].pc \in OrderedPcs) => (queue # <<>> /\ Head(queue) = t)
  /\ queue' = Requeued(t, tasks[t].pc, r.tk)
  /\ state' = r.c.state
  /\ namespaceId' = r.c.namespaceId
  /\ renderedBufferId' = r.c.renderedBufferId
  /\ requestCounter' = r.c.requestCounter
  /\ tasks' = [tasks EXCEPT ![t] = r.tk]
  /\ UNCHANGED <<nTasks, hostEvents, inOrder, call, session>>

\* the handler invocations that have not returned yet
Active == {t \in 1..nTasks : tasks[t].pc # "done"}

At(t, pc) == t \in 1..nTasks /\ tasks[t].pc = pc


\* ----------------------------------------------- continuations of the helpers
\* calculateDiff(contextText, newText).length: the diff comes from the diff
\* library; equal texts give no operation, different texts at least one
DiffOpCounts(contextText, newText) ==
  IF contextText = newText THEN {0} ELSE 1..MaxDiffOps

IsStale_TypeOnly(c, tk) == c.state.type # "awaiting-agent-reply"

\* the stale check of triggerPrediction, after the model call resolved
IsStale(c, tk) ==
  c.state.type # "awaiting-agent-reply" \/ c.state.requestId # tk.requestId

ContextUnchanged_UpToShorter(currentLines, contextLines) ==
  \A i \in 1..Min(Len(currentLines), Len(contextLines)) :
    currentLines[i] = contextLines[i]

\* the comparison loop of acceptPrediction; a missing current line is undefined
ContextUnchanged(currentLines, contextLines) ==
  \A i \in 1..Len(contextLines) :
    i <= Len(currentLines) /\ currentLines[i] = contextLines[i]

\* showVirtualTextPreview after clearVirtualText, with n diff operations
PreviewAfterClear(c, tk, n) ==
  LET c1 == [c EXCEPT !.renderedBufferId = tk.context.bufferId]
      contextText == Join(tk.context.contextLines, <<NL>>)
      found == resolveFindText(tk.prediction.find, contextText)
  IN IF ~found.ok THEN [c |-> c1, tk |-> Finished(tk, "find not found")]
     ELSE IF n = 0 THEN [c |-> c1, tk |-> [tk EXCEPT !.pc = "p_active", !.ret = "none"]]
     ELSE [c |-> c1, tk |-> [tk EXCEPT !.pc = "p_mark", !.ret = "none", !.todo = n]]

\* the code after cleanupPredictionListeners in dismissPrediction, in the two
\* failure branches of triggerPrediction and in acceptPrediction
AfterCleanup(c, tk, ret) ==
  IF ret = "dismiss"
    THEN [c |-> [c EXCEPT !.state = IdleState], tk |-> Finished(tk, "ok")]
  ELSE IF ret = "fail"
    THEN [c |-> [c EXCEPT !.state = IdleState],
          tk |-> [tk EXCEPT !.pc = "f_notify", !.ret = "none"]]
  ELSE [c |-> c, tk |-> [tk EXCEPT !.pc = "a_lines", !.ret = "none"]]

\* cleanupPredictionListeners(bufnr): dismissPrediction passes no bufnr and
\* the target is read from the state, the other callers pass context.bufferId
BeginCleanup(c, tk, ret) ==
  LET targetBufnr ==
        IF ret = "dismiss"
          THEN (IF c.state.type = "displaying-proposed-edit"
                  THEN c.state.context.bufferId ELSE 0)
          ELSE tk.context.bufferId
  IN IF targetBufnr = 0 THEN AfterCleanup(c, tk, ret)
     ELSE [c |-> c,
           tk |-> [tk EXCEPT !.pc = "cl_esc", !.ret = ret, !.targetBufnr = targetBufnr]]

\* the code after clearVirtualText in its five callers
AfterClear(c, tk, ret, n) ==
  IF ret = "indicator"
    THEN [c |-> [c EXCEPT !.renderedBufferId = tk.context.bufferId],
          tk |-> [tk EXCEPT !.pc = "i_mark", !.ret = "none"]]
  ELSE IF ret = "preview" THEN PreviewAfterClear(c, tk, n)
  ELSE BeginCleanup(c, tk, ret)

\* clearVirtualText up to its first host call
BeginClear(c, tk, ret, n) ==
  IF c.renderedBufferId = 0 THEN AfterClear(c, tk, ret, n)
  ELSE [c |-> c,
        tk |-> [tk EXCEPT !.pc = "clr_ns", !.ret = ret, !.clearBuf = c.renderedBufferId]]

\* the numbers of diff operations the preview of tk can have; {0} for a
\* caller of clearVirtualText other than showVirtualTextPreview
PreviewOps(tk, ret) ==
  LET contextText == Join(tk.context.contextLines, <<NL>>)
      found == resolveFindText(tk.prediction.find, contextText)
  IN IF ret = "preview" /\ found.ok
       THEN DiffOpCounts(contextText,
                         replacedText(contextText, found.text, tk.prediction.replace))
       ELSE {0}

\* acceptPrediction up to its first host call
BeginAccept(c, tk) ==
  BeginClear([c EXCEPT !.state = ApplyingState(c.state.context, c.state.prediction)],
             [tk EXCEPT !.context = c.state.context, !.prediction = c.state.prediction],
             "accept", 0)

\* triggerPrediction up to its first host call (in captureContextWindow)
BeginTrigger(c, tk) ==
  [c |-> [c EXCEPT !.requestCounter = c.requestCounter + 1],
   tk |-> [tk EXCEPT !.pc = "c_buf", !.requestId = c.requestCounter + 1]]


\* ------------------------------------------------------------------- Init
\* no function is being applied
NoCall == [fn |-> "none"]

\* no RPC session is examined
NoSession == [phase |-> "none"]

\* the controller after construction, in a host with two buffers
ControllerInit ==
  /\ state = IdleState
  /\ namespaceId = 0
  /\ renderedBufferId = 0
  /\ requestCounter = 0
  /\ tasks = [t \in 1..MaxTasks |-> NoTask]
  /\ nTasks = 0
  /\ bufLines = [b \in Bufs |-> <<A, A>>]
  /\ curBuf = 1
  /\ cursor = <<1, 0>>
  /\ mode = "n"
  /\ marks = [b \in Bufs |-> {}]
  /\ escMap = [b \in Bufs |-> FALSE]
  /\ txtListen = [b \in Bufs |-> FALSE]
  /\ predActive = FALSE
  /\ hostEvents = 0
  /\ queue = <<>>

\* the host may answer the outstanding requests in any order
Init == ControllerInit /\ inOrder = FALSE /\ session = NoSession /\ call = NoCall

\* ------------------------------------------- inbound notifications (index.ts)
\* A notification is dispatched to its handler, which calls the controller.
\* The handlers of "violetEditPrediction" and "violetAcceptPrediction" first
\* await log(...), reading nothing before: such a notification takes effect
\* when its log is written, which is the moment these actions stand for.
Starts(r) ==
  /\ nTasks < MaxTasks
  /\ Cardinality(Active) < MaxActive
  /\ nTasks' = nTasks + 1
  /\ state' = r.c.state
  /\ namespaceId' = r.c.namespaceId
  /\ renderedBufferId' = r.c.renderedBufferId
  /\ requestCounter' = r.c.requestCounter
  /\ tasks' = [tasks EXCEPT ![nTasks + 1] = r.tk]
  /\ queue' = Requeued(nTasks + 1, "none", r.tk)
  /\ UNCHANGED <<hostVars, hostEvents, inOrder, call, session>>

NewTask(kind, bufnr) == [NoTask EXCEPT !.kind = kind, !.bufnr = bufnr]

triggerOrAccept_NoAwaitingCheck(c, tk) ==
  IF c.state.type = "displaying-proposed-edit" THEN BeginAccept(c, tk)
  ELSE BeginTrigger(c, tk)

\* triggerOrAccept
triggerOrAccept(c, tk) ==
  IF c.state.type = "displaying-proposed-edit" THEN BeginAccept(c, tk)
  ELSE IF c.state.type = "awaiting-agent-reply" THEN [c |-> c, tk |-> Finished(tk, "noop")]
  ELSE BeginTrigger(c, tk)

\* acceptPredictionOnly
acceptPredictionOnly(c, tk) ==
  IF c.state.type # "displaying-proposed-edit" THEN [c |-> c, tk |-> Finished(tk, "noop")]
  ELSE BeginAccept(c, tk)

\* dismissPrediction(bufnr); bufnr 0 stands for undefined
dismissPrediction(c, tk) ==
  IF c.state.type # "displaying-proposed-edit" THEN [c |-> c, tk |-> Finished(tk, "noop")]
  ELSE IF tk.bufnr # 0 /\ tk.bufnr # c.state.context.bufferId
    THEN [c |-> c, tk |-> Finished(tk, "ignored")]
  ELSE BeginClear(c, tk, "dismiss", 0)

\* "violetEditPrediction"
NotifyEditPrediction == Starts(triggerOrAccept(Ctl, NewTask("trigger", 0)))

\* "violetAcceptPrediction"
NotifyAcceptPrediction == Starts(acceptPredictionOnly(Ctl, NewTask("accept", 0)))

\* "violetPredictionDismissed", with payload.bufnr or without
NotifyPredictionDismissed ==
  \E bufnr \in {0} \cup Bufs : Starts(dismissPrediction(Ctl, NewTask("dismiss", bufnr)))

\* ---------------------------------------------------- captureContextWindow
\* nvim_get_current_buf answered
CaptureBuf(t) ==
  /\ At(t, "c_buf")
  /\ Becomes(t, [c |-> Ctl,
                 tk |-> [tasks[t] EXCEPT !.pc = "c_cursor", !.bufferId = curBuf]])
  /\ UNCHANGED hostVars

\* nvim_win_get_cursor answered
CaptureCursor(t) ==
  /\ At(t, "c_cursor")
  /\ Becomes(t, [c |-> Ctl,
                 tk |-> [tasks[t] EXCEPT !.pc = "c_count", !.cursor = cursor]])
  /\ UNCHANGED hostVars

\* nvim_buf_line_count answered
CaptureLineCount(t) ==
  /\ At(t, "c_count")
  /\ Becomes(t, [c |-> Ctl,
                 tk |-> [tasks[t] EXCEPT !.pc = "c_name",
                                         !.totalLines = Len(bufLines[tasks[t].bufferId])]])
  /\ UNCHANGED hostVars

\* nvim_buf_get_name answered
CaptureName(t) ==
  /\ At(t, "c_name")
  /\ Becomes(t, [c |-> Ctl, tk |-> [tasks[t] EXCEPT !.pc = "c_lines"]])
  /\ UNCHANGED hostVars

\* captureContextWindow with the end of the window clipped at the line count
CapturedContext_ClipAtCount(tk, lines) ==
  LET cursorRow == tk.cursor[1] - 1
      startLine == Max(0, cursorRow - ContextBefore)
      endLine == Min(tk.totalLines, cursorRow + ContextAfter)
  IN [contextLines |-> BufGetLines(lines, startLine, endLine + 1),
      cursorDelta |-> cursorRow - startLine,
      cursorCol |-> tk.cursor[2],
      bufferName |-> tk.bufferId,
      bufferId |-> tk.bufferId,
      startLine |-> startLine,
      endLine |-> endLine,
      totalLines |-> tk.totalLines]

\* the CapturedContext built from the answers, contextLines being the answer
\* of nvim_buf_get_lines(bufferId, startLine, endLine + 1)
CapturedContext(tk, lines) ==
  LET cursorRow == tk.cursor[1] - 1
      startLine == Max(0, cursorRow - ContextBefore)
      endLine == Min(tk.totalLines - 1, cursorRow + ContextAfter)
  IN [contextLines |-> BufGetLines(lines, startLine, endLine + 1),
      cursorDelta |-> cursorRow - startLine,
      cursorCol |-> tk.cursor[2],
      bufferName |-> tk.bufferId,
      bufferId |-> tk.bufferId,
      startLine |-> startLine,
      endLine |-> endLine,
      totalLines |-> tk.totalLines]

\* nvim_buf_get_lines answered: captureContextWindow returns, triggerPrediction
\* sets the state and awaits log(...)
CaptureLines(t) ==
  /\ At(t, "c_lines")
  /\ LET context == CapturedContext(tasks[t], bufLines[tasks[t].bufferId])
     IN Becomes(t, [c |-> [Ctl EXCEPT !.state = AwaitingState(tasks[t].requestId, context)],
                    tk |-> [tasks[t] EXCEPT !.pc = "t_log", !.context = context]])
  /\ UNCHANGED hostVars

\* ------------------------------------------------ showCompletingIndicator
\* the logs are written: showCompletingIndicator starts with ensureNamespace
IndicatorBegin(t) ==
  /\ At(t, "t_log")
  /\ Becomes(t, IF namespaceId = 0
                  THEN [c |-> Ctl, tk |-> [tasks[t] EXCEPT !.pc = "i_ns"]]
                ELSE BeginClear(Ctl, tasks[t], "indicator", 0))
  /\ UNCHANGED hostVars

\* nvim_create_namespace answered (ensureNamespace)
NamespaceCreated(t) ==
  /\ At(t, "i_ns")
  /\ Becomes(t, BeginClear([Ctl EXCEPT !.namespaceId = NsId], tasks[t], "indicator", 0))
  /\ UNCHANGED hostVars

\* nvim_buf_set_extmark of "completing..." answered: the model request is sent
IndicatorShown(t) ==
  /\ At(t, "i_mark")
  /\ marks' = [marks EXCEPT ![tasks[t].context.bufferId] = @ \cup {"completing"}]
  /\ Becomes(t, [c |-> Ctl, tk |-> [tasks[t] EXCEPT !.pc = "model"]])
  /\ UNCHANGED <<bufLines, curBuf, cursor, mode, escMap, txtListen, predActive>>

\* ------------------------------------------------------- clearVirtualText
\* nvim_buf_clear_namespace answered; set_prediction_active(false) is sent
ClearNamespaceDone(t) ==
  /\ At(t, "clr_ns")
  /\ marks' = [marks EXCEPT ![tasks[t].clearBuf] = {}]
  /\ Becomes(t, [c |-> [Ctl EXCEPT !.renderedBufferId = 0],
                 tk |-> [tasks[t] EXCEPT !.pc = "clr_active", !.clearBuf = 0]])
  /\ UNCHANGED <<bufLines, curBuf, cursor, mode, escMap, txtListen, predActive>>

\* set_prediction_active(false) answered: clearVirtualText returns
ClearActiveDone(t) ==
  /\ At(t, "clr_active")
  /\ predActive' = FALSE
  /\ \E n \in PreviewOps(tasks[t], tasks[t].ret) :
       Becomes(t, AfterClear(Ctl, tasks[t], tasks[t].ret, n))
  /\ UNCHANGED <<bufLines, curBuf, cursor, mode, marks, escMap, txtListen>>

\* --------------------------------------------- cleanupPredictionListeners
\* cleanup_prediction_esc_mapping answered
CleanupEscDone(t) ==
  /\ At(t, "cl_esc")
  /\ escMap' = [escMap EXCEPT ![tasks[t].targetBufnr] = FALSE]
  /\ Becomes(t, [c |-> Ctl, tk |-> [tasks[t] EXCEPT !.pc = "cl_txt"]])
  /\ UNCHANGED <<bufLines, curBuf, cursor, mode, marks, txtListen, predActive>>

\* cleanup_listen_for_text_changed answered: cleanupPredictionListeners returns
CleanupTextChangedDone(t) ==
  /\ At(t, "cl_txt")
  /\ txtListen' = [txtListen EXCEPT ![tasks[t].targetBufnr] = FALSE]
  /\ Becomes(t, AfterCleanup(Ctl, [tasks[t] EXCEPT !.targetBufnr = 0], tasks[t].ret))
  /\ UNCHANGED <<bufLines, curBuf, cursor, mode, marks, escMap, predActive>>


\* ------------------------------------- triggerPrediction after the model call
\* client.messages.create resolved with a tool_use block whose input is p
ModelReplied(t, p) ==
  /\ At(t, "model")
  /\ LET tk == [tasks[t] EXCEPT !.reply = "tool_use"]
     IN Becomes(t, IF IsStale(Ctl, tk) THEN [c |-> Ctl, tk |-> Finished(tk, "stale")]
                   ELSE [c |-> [Ctl EXCEPT !.state = DisplayingState(tk.context, p)],
                         tk |-> [tk EXCEPT !.pc = "s_mode", !.prediction = p]])
  /\ UNCHANGED hostVars

\* client.messages.create resolved without a tool_use block
ModelRepliedNoToolUse(t) ==
  /\ At(t, "model")
  /\ LET tk == [tasks[t] EXCEPT !.reply = "no_tool_use"]
     IN Becomes(t, IF IsStale(Ctl, tk) THEN [c |-> Ctl, tk |-> Finished(tk, "stale")]
                   ELSE BeginClear(Ctl, tk, "fail", 0))
  /\ UNCHANGED hostVars

\* client.messages.create rejected: the catch branch
ModelRejected(t) ==
  /\ At(t, "model")
  /\ Becomes(t, BeginClear(Ctl, [tasks[t] EXCEPT !.reply = "rejected"], "fail", 0))
  /\ UNCHANGED hostVars

\* nvim_notify of the failure answered: the error is thrown
FailureNotified(t) ==
  /\ At(t, "f_notify")
  /\ Becomes(t, [c |-> Ctl, tk |-> Finished(tasks[t], "prediction failed")])
  /\ UNCHANGED hostVars

\* ------------------------------------------------ setupPredictionListeners
\* nvim_get_mode answered
ModeRead(t) ==
  /\ At(t, "s_mode")
  /\ Becomes(t, [c |-> Ctl,
                 tk |-> [tasks[t] EXCEPT !.pc = IF mode = "n" THEN "s_esc" ELSE "s_txt"]])
  /\ UNCHANGED hostVars

\* setup_prediction_esc_mapping answered
EscMappingSet(t) ==
  /\ At(t, "s_esc")
  /\ escMap' = [escMap EXCEPT ![tasks[t].context.bufferId] = TRUE]
  /\ Becomes(t, [c |-> Ctl, tk |-> [tasks[t] EXCEPT !.pc = "s_txt"]])
  /\ UNCHANGED <<bufLines, curBuf, cursor, mode, marks, txtListen, predActive>>

\* listen_for_text_changed answered: showVirtualTextPreview starts
TextChangedListening(t) ==
  /\ At(t, "s_txt")
  /\ txtListen' = [txtListen EXCEPT ![tasks[t].context.bufferId] = TRUE]
  /\ \E n \in PreviewOps(tasks[t], "preview") :
       Becomes(t, BeginClear(Ctl, tasks[t], "preview", n))
  /\ UNCHANGED <<bufLines, curBuf, cursor, mode, marks, escMap, predActive>>

\* --------------------------------------------------- showVirtualTextPreview
\* nvim_buf_set_extmark of one diff operation answered
PreviewMarkSet(t) ==
  /\ At(t, "p_mark")
  /\ marks' = [marks EXCEPT ![tasks[t].context.bufferId] = @ \cup {"preview"}]
  /\ Becomes(t, [c |-> Ctl,
                 tk |-> [tasks[t] EXCEPT !.todo = @ - 1,
                                         !.pc = IF tasks[t].todo = 1 THEN "p_active"
                                                ELSE "p_mark"]])
  /\ UNCHANGED <<bufLines, curBuf, cursor, mode, escMap, txtListen, predActive>>

\* set_prediction_active(true) answered: triggerPrediction returns
PreviewActive(t) ==
  /\ At(t, "p_active")
  /\ predActive' = TRUE
  /\ Becomes(t, [c |-> Ctl, tk |-> Finished(tasks[t], "ok")])
  /\ UNCHANGED <<bufLines, curBuf, cursor, mode, marks, escMap, txtListen>>

\* ---------------------------------------------------------- acceptPrediction
\* the text acceptPrediction writes, for a context and a resolvable prediction
AcceptReplacedText(context, prediction) ==
  LET contextText == Join(context.contextLines, <<NL>>)
  IN replacedText(contextText, resolveFindText(prediction.find, contextText).text,
                  prediction.replace)

AcceptCursorPos_AtMatchStart(context, prediction) ==
  LET contextText == Join(context.contextLines, <<NL>>)
      findText == resolveFindText(prediction.find, contextText).text
  IN convertCharPosToLineCol(AcceptReplacedText(context, prediction),
                             IndexOf(contextText, findText), context.startLine, 0)

\* the position acceptPrediction moves the cursor to
AcceptCursorPos(context, prediction) ==
  LET contextText == Join(context.contextLines, <<NL>>)
      findText == resolveFindText(prediction.find, contextText).text
      firstMatchPos == IndexOf(contextText, findText)
  IN convertCharPosToLineCol(AcceptReplacedText(context, prediction),
                             firstMatchPos + Len(prediction.replace),
                             context.startLine, 0)

AcceptAfterRead_WriteBeforeResolve(c, tk, currentLines) ==
  IF ~ContextUnchanged(currentLines, tk.context.contextLines)
    THEN [c |-> [c EXCEPT !.state = IdleState], tk |-> Finished(tk, "context changed")]
  ELSE [c |-> c, tk |-> [tk EXCEPT !.pc = "a_set", !.currentLines = currentLines]]

\* acceptPrediction from the answer of nvim_buf_get_lines to the call of
\* nvim_buf_set_lines: the comparison loop and resolveFindText
AcceptAfterRead(c, tk, currentLines) ==
  IF ~ContextUnchanged(currentLines, tk.context.contextLines)
    THEN [c |-> [c EXCEPT !.state = IdleState], tk |-> Finished(tk, "context changed")]
  ELSE IF ~resolveFindText(tk.prediction.find, Join(tk.context.contextLines, <<NL>>)).ok
    THEN [c |-> c, tk |-> Finished(tk, "find not found")]
  ELSE [c |-> c, tk |-> [tk EXCEPT !.pc = "a_set", !.currentLines = currentLines]]

\* nvim_buf_get_lines answered
AcceptLinesRead(t) ==
  /\ At(t, "a_lines")
  /\ Becomes(t, AcceptAfterRead(Ctl, tasks[t],
                                BufGetLines(bufLines[tasks[t].context.bufferId],
                                            tasks[t].context.startLine,
                                            tasks[t].context.endLine + 1)))
  /\ UNCHANGED hostVars

\* nvim_buf_set_lines answered
AcceptLinesSet(t) ==
  /\ At(t, "a_set")
  /\ LET tk == tasks[t]
         contextText == Join(tk.context.contextLines, <<NL>>)
         findText == resolveFindText(tk.prediction.find, contextText).text
     IN /\ bufLines' = [bufLines EXCEPT ![tk.context.bufferId] =
                          BufSetLines(@, tk.context.startLine, tk.context.endLine + 1,
                                      replacedLines(AcceptReplacedText(tk.context,
                                                                       tk.prediction)))]
        /\ Becomes(t, IF IndexOf(contextText, findText) # -1
                        THEN [c |-> Ctl, tk |-> [tk EXCEPT !.pc = "a_cursor"]]
                      ELSE [c |-> [Ctl EXCEPT !.state = IdleState],
                            tk |-> Finished(tk, "ok")])
  /\ UNCHANGED <<curBuf, cursor, mode, marks, escMap, txtListen, predActive>>

\* nvim_win_set_cursor answered
AcceptCursorSet(t) ==
  /\ At(t, "a_cursor")
  /\ LET newPos == AcceptCursorPos(tasks[t].context, tasks[t].prediction)
     IN cursor' = <<newPos.row + 1, newPos.col>>
  /\ Becomes(t, [c |-> [Ctl EXCEPT !.state = IdleState], tk |-> Finished(tasks[t], "ok")])
  /\ UNCHANGED <<bufLines, curBuf, mode, marks, escMap, txtListen, predActive>>

\* ------------------------------------------------------ the user in the host
HostEvent ==
  /\ hostEvents < MaxHostEvents
  /\ hostEvents' = hostEvents + 1
  /\ UNCHANGED <<ctlVars, tasks, nTasks, marks, escMap, txtListen, predActive,
                 inOrder, queue, call, session>>

\* the user changes the text of the current buffer
HostEdit ==
  /\ HostEvent
  /\ \E lines \in BufContents \ {bufLines[curBuf]} :
       /\ bufLines' = [bufLines EXCEPT ![curBuf] = lines]
       /\ cursor' = <<Min(cursor[1], Len(lines)), cursor[2]>>
  /\ UNCHANGED <<curBuf, mode>>

\* the user switches to another buffer
HostSwitchBuffer ==
  /\ HostEvent
  /\ \E b \in Bufs \ {curBuf} : curBuf' = b
  /\ cursor' = <<1, 0>>
  /\ UNCHANGED <<bufLines, mode>>

\* the user enters or leaves insert mode
HostChangeMode ==
  /\ HostEvent
  /\ mode' = IF mode = "n" THEN "i" ELSE "n"
  /\ UNCHANGED <<bufLines, curBuf, cursor>>

\* ------------------------------------------------------------------- Next
Next ==
  \/ NotifyEditPrediction
  \/ NotifyAcceptPrediction
  \/ NotifyPredictionDismissed
  \/ \E t \in 1..MaxTasks : CaptureBuf(t)
  \/ \E t \in 1..MaxTasks : CaptureCursor(t)
  \/ \E t \in 1..MaxTasks : CaptureLineCount(t)
  \/ \E t \in 1..MaxTasks : CaptureName(t)
  \/ \E t \in 1..MaxTasks : CaptureLines(t)
  \/ \E t \in 1..MaxTasks : IndicatorBegin(t)
  \/ \E t \in 1..MaxTasks : NamespaceCreated(t)
  \/ \E t \in 1..MaxTasks : IndicatorShown(t)
  \/ \E t \in 1..MaxTasks : ClearNamespaceDone(t)
  \/ \E t \in 1..MaxTasks : ClearActiveDone(t)
  \/ \E t \in 1..MaxTasks : CleanupEscDone(t)
  \/ \E t \in 1..MaxTasks : CleanupTextChangedDone(t)
  \/ \E t \in 1..MaxTasks, p \in Predictions : ModelReplied(t, p)
  \/ \E t \in 1..MaxTasks : ModelRepliedNoToolUse(t)
  \/ \E t \in 1..MaxTasks : ModelRejected(t)
  \/ \E t \in 1..MaxTasks : FailureNotified(t)
  \/ \E t \in 1..MaxTasks : ModeRead(t)
  \/ \E t \in 1..MaxTasks : EscMappingSet(t)
  \/ \E t \in 1..MaxTasks : TextChangedListening(t)
  \/ \E t \in 1..MaxTasks : PreviewMarkSet(t)
  \/ \E t \in 1..MaxTasks : PreviewActive(t)
  \/ \E t \in 1..MaxTasks : AcceptLinesRead(t)
  \/ \E t \in 1..MaxTasks : AcceptLinesSet(t)
  \/ \E t \in 1..MaxTasks : AcceptCursorSet(t)
  \/ HostEdit
  \/ HostSwitchBuffer
  \/ HostChangeMode

Spec == Init /\ [][Next]_vars

\* the host executes the queued requests of the channel in the order received
InitInOrder == ControllerInit /\ inOrder = TRUE /\ session = NoSession /\ call = NoCall

SpecInOrder == InitInOrder /\ [][Next]_vars

\* the same controller and host, the first buffer holding a single line: a
\* window captured there is shorter than the buffer once a line is added
InitShortBuffer ==
  /\ state = IdleState
  /\ namespaceId = 0
  /\ renderedBufferId = 0
  /\ requestCounter = 0
  /\ tasks = [t \in 1..MaxTasks |-> NoTask]
  /\ nTasks = 0
  /\ bufLines = [b \in Bufs |-> IF b = 1 THEN <<A>> ELSE <<A, A>>]
  /\ curBuf = 1
  /\ cursor = <<1, 0>>
  /\ mode = "n"
  /\ marks = [b \in Bufs |-> {}]
  /\ escMap = [b \in Bufs |-> FALSE]
  /\ txtListen = [b \in Bufs |-> FALSE]
  /\ predActive = FALSE
  /\ hostEvents = 0
  /\ queue = <<>>
  /\ inOrder = TRUE
  /\ session = NoSession
  /\ call = NoCall

SpecShortBuffer == InitShortBuffer /\ [][Next]_vars

\* ======================================= pure functions on bounded arguments
\* the controller is not running while a pure function is examined
ControllerIdle ==
  UNCHANGED <<state, namespaceId, renderedBufferId, requestCounter, tasks, nTasks,
              bufLines, curBuf, cursor, mode, marks, escMap, txtListen, predActive,
              hostEvents, inOrder, queue, session>>

\* the texts of at most n characters over the alphabet S
TextsUpTo(S, n) == UNION {[1..k -> S] : k \in 0..n}

\* --------------------------------------------------------- resolveFindText
\* the find texts a prediction can carry and the context texts they meet
FindTexts == TextsUpTo({"a", Marker}, MaxFindLen)
ContextTexts == TextsUpTo({"a", "b"}, MaxTextLen)

InitResolve ==
  /\ ControllerInit
  /\ inOrder = FALSE /\ session = NoSession
  /\ call \in [fn : {"resolveFindText"}, findText : FindTexts,
               contextText : ContextTexts, done : {FALSE},
               result : {[ok |-> FALSE, text |-> <<>>]}]

\* resolveFindText(findText, contextText) returns or throws
CallResolveFindText ==
  /\ call.fn = "resolveFindText"
  /\ ~call.done
  /\ call' = [call EXCEPT !.done = TRUE,
                          !.result = resolveFindText(call.findText, call.contextText)]
  /\ ControllerIdle

NextResolve == CallResolveFindText

SpecResolve == InitResolve /\ [][NextResolve]_vars


\* ---------------------------------------------------- captureContextWindow
\* the answers of nvim_win_get_cursor and nvim_buf_line_count for a cursor
\* inside a buffer of 1..MaxLines lines
InitCapture ==
  /\ ControllerInit
  /\ inOrder = FALSE /\ session = NoSession
  /\ \E n \in 1..MaxLines : \E row \in 1..n :
       call = [fn |-> "captureContextWindow", cursor |-> <<row, 0>>,
               totalLines |-> n, done |-> FALSE, result |-> NoContext]

\* captureContextWindow() returns the context built from the answers
CallCaptureContextWindow ==
  /\ call.fn = "captureContextWindow"
  /\ ~call.done
  /\ LET tk == [NoTask EXCEPT !.bufferId = 1, !.cursor = call.cursor,
                              !.totalLines = call.totalLines]
         lines == [i \in 1..call.totalLines |-> "a"]
     IN call' = [call EXCEPT !.done = TRUE, !.result = CapturedContext(tk, lines)]
  /\ ControllerIdle

NextCapture == CallCaptureContextWindow

SpecCapture == InitCapture /\ [][NextCapture]_vars


\* --------------------------------------------------- buildPredictionPrompt
\* a number in a template literal: its decimal digits
RECURSIVE FormatNumber(_)
FormatNumber(n) ==
  LET digit == <<"0", "1", "2", "3", "4", "5", "6", "7", "8", "9">>[(n % 10) + 1]
  IN IF n < 10 THEN <<digit>> ELSE FormatNumber(n \div 10) \o <<digit>>

\* the three lines a recent change is shown as, joined by line breaks
FormatChange(change) ==
  Join(<<change.filePath \o <<":">> \o FormatNumber(change.startLine + 1)
                         \o <<":">> \o FormatNumber(change.endLine + 1),
         <<"-", " ">> \o change.oldText,
         <<"+", " ">> \o change.newText>>, <<NL>>)

\* the quotient rounded down
Ceil_Floor(a, b) == a \div b

\* Math.ceil(a / b) of a length a and b > 0
Ceil(a, b) == (a + b - 1) \div b

\* the loop of buildPredictionPrompt from 1-based index i down: break at the
\* first change that exceeds the budget, unshift the others
RECURSIVE SelectLoop(_, _, _, _, _)
SelectLoop(recentChanges, i, selectedChanges, tokenCount, tokenBudget) ==
  IF i < 1 THEN selectedChanges
  ELSE LET formatted == FormatChange(recentChanges[i])
           estimatedTokens == Ceil(Len(formatted), CharsPerToken)
       IN IF tokenCount + estimatedTokens > tokenBudget
          THEN selectedChanges
          ELSE SelectLoop(recentChanges, i - 1, <<formatted>> \o selectedChanges,
                          tokenCount + estimatedTokens, tokenBudget)

\* selectedChanges of buildPredictionPrompt(params), the lines after
\* "Recent changes:"; params.tokenBudget is <<>> when missing (the default
\* applies) and <<b>> when given
selectedChanges(recentChanges, budget) ==
  LET tokenBudget == IF budget = <<>> THEN DEFAULT_RECENT_CHANGE_TOKEN_BUDGET
                     ELSE budget[1]
  IN SelectLoop(recentChanges, Len(recentChanges), <<>>, 0, tokenBudget)

\* a text of n characters
Repeat(ch, n) == [i \in 1..n |-> ch]

\* recent changes of 4, 5, 5, 996 and 997 estimated tokens
ChangeSamples ==
  {[filePath |-> <<"f">>, startLine |-> 0, endLine |-> 0, oldText |-> <<>>,
    newText |-> <<>>],
   [filePath |-> <<"f">>, startLine |-> 0, endLine |-> 0, oldText |-> <<"a">>,
    newText |-> <<"b">>],
   [filePath |-> <<"f">>, startLine |-> 9, endLine |-> 99, oldText |-> <<>>,
    newText |-> <<>>],
   [filePath |-> <<"f">>, startLine |-> 0, endLine |-> 0, oldText |-> <<>>,
    newText |-> Repeat("x", 2977)],
   [filePath |-> <<"f">>, startLine |-> 0, endLine |-> 0, oldText |-> <<>>,
    newText |-> Repeat("x", 2978)]}

\* the budgets passed: none, and small ones around the sums of the samples
TokenBudgets == {<<>>, <<0>>, <<4>>, <<8>>, <<9>>, <<13>>}

InitPrompt ==
  /\ ControllerInit
  /\ inOrder = FALSE /\ session = NoSession
  /\ \E k \in 0..MaxChanges : \E rc \in [1..k -> ChangeSamples] :
       \E b \in TokenBudgets :
         call = [fn |-> "buildPredictionPrompt", recentChanges |-> rc,
                 tokenBudget |-> b, done |-> FALSE, result |-> <<>>]

\* buildPredictionPrompt(params) returns
CallBuildPredictionPrompt ==
  /\ call.fn = "buildPredictionPrompt"
  /\ ~call.done
  /\ call' = [call EXCEPT !.done = TRUE,
                          !.result = selectedChanges(call.recentChanges,
                                                     call.tokenBudget)]
  /\ ControllerIdle

NextPrompt == CallBuildPredictionPrompt

SpecPrompt == InitPrompt /\ [][NextPrompt]_vars


\* ----------------------------------------------------------- ChangeTracker
\* array.splice(0, deleteCount): the array without its first deleteCount
\* elements
SpliceFront(array, deleteCount) ==
  SubSeq(array, Min(Max(deleteCount, 0), Len(array)) + 1, Len(array))

\* addChange with the newest entries dropped on overflow
addChange_DropNewest(tracker, change) ==
  IF change.filePath = <<>> THEN tracker
  ELSE LET pushed == Append(tracker.changes, change)
       IN IF Len(pushed) > tracker.maxChanges
          THEN [tracker EXCEPT !.changes = SubSeq(pushed, 1, tracker.maxChanges)]
          ELSE [tracker EXCEPT !.changes = pushed]

\* ChangeTracker.addChange(change) on the tracker [maxChanges, changes]; the
\* timestamp of the entry is left out
addChange(tracker, change) ==
  IF change.filePath = <<>> THEN tracker
  ELSE LET pushed == Append(tracker.changes, change)
       IN IF Len(pushed) > tracker.maxChanges
          THEN [tracker EXCEPT !.changes =
                  SpliceFront(pushed, Len(pushed) - tracker.maxChanges)]
          ELSE [tracker EXCEPT !.changes = pushed]

\* ChangeTracker.getChanges()
getChanges(tracker) == tracker.changes

\* the capacities passed to the constructor; without one it is the default
Capacities == {0, 1, 2, 3, DefaultMaxChanges}

\* the changes of the violetBufferChange notifications that were accepted
Accepted(added) == SelectSeq(added, LAMBDA c : c.filePath # <<>>)

\* new ChangeTracker(maxChanges); added records every change passed to
\* addChange since
InitTracker ==
  /\ ControllerInit
  /\ inOrder = FALSE /\ session = NoSession
  /\ \E n \in Capacities :
       call = [fn |-> "ChangeTracker", maxChanges |-> n, changes |-> <<>>,
               added |-> <<>>]

\* a violetBufferChange notification: addChange(change), the change being the
\* startLine-th one, with or without a file path; after MaxAdds adds only the
\* default tracker goes on, with file paths, to Overflow entries past its
\* capacity
AddChange ==
  /\ call.fn = "ChangeTracker"
  /\ \E path \in {<<>>, <<"f">>} :
       /\ \/ Len(call.added) < MaxAdds
          \/ /\ path # <<>>
             /\ call.maxChanges = DefaultMaxChanges
             /\ Len(Accepted(call.added)) < DefaultMaxChanges + Overflow
       /\ LET change == [filePath |-> path, startLine |-> Len(call.added)]
              tracker == addChange([maxChanges |-> call.maxChanges,
                                    changes |-> call.changes], change)
          IN call' = [call EXCEPT !.changes = getChanges(tracker),
                                  !.added = Append(call.added, change)]
  /\ ControllerIdle

NextTracker == AddChange

SpecTracker == InitTracker /\ [][NextTracker]_vars


\* ----------------------------------------------------------- calculateDiff
\* the parts diff.diffWordsWithSpace can answer with: a value that is added,
\* removed or common to both texts
PartValues == {<<"a">>, <<" ">>, <<"b", "b">>}
Parts == [value : PartValues, added : BOOLEAN, removed : BOOLEAN]
           \ {p \in [value : PartValues, added : BOOLEAN, removed : BOOLEAN] :
                p.added /\ p.removed}

\* the text a list of parts spells without its added (or its removed) parts
RECURSIVE TextOf(_, _)
TextOf(changes, without) ==
  IF changes = <<>> THEN <<>>
  ELSE (IF Head(changes)[without] THEN <<>> ELSE Head(changes).value)
         \o TextOf(Tail(changes), without)

\* the texts that diff.diffWordsWithSpace(originalText, newText) answered
\* changes for: the parts not added spell the original text, the parts not
\* removed the new text
OriginalTextOf(changes) == TextOf(changes, "added")
NewTextOf(changes) == TextOf(changes, "removed")

\* the body of the loop with the original position advanced over an added
\* part as well
DiffStep_InsertAdvances(acc, change) ==
  IF change.removed
  THEN [operations |-> Append(acc.operations,
                              [type |-> "delete", startPos |-> acc.originalPosition,
                               endPos |-> acc.originalPosition + Len(change.value)]),
        originalPosition |-> acc.originalPosition + Len(change.value)]
  ELSE IF change.added
  THEN [operations |-> Append(acc.operations,
                              [type |-> "insert", text |-> change.value,
                               insertAfterPos |-> acc.originalPosition]),
        originalPosition |-> acc.originalPosition + Len(change.value)]
  ELSE [acc EXCEPT !.originalPosition = acc.originalPosition + Len(change.value)]

\* the body of the loop of calculateDiff for one change
DiffStep(acc, change) ==
  IF change.removed
  THEN [operations |-> Append(acc.operations,
                              [type |-> "delete", startPos |-> acc.originalPosition,
                               endPos |-> acc.originalPosition + Len(change.value)]),
        originalPosition |-> acc.originalPosition + Len(change.value)]
  ELSE IF change.added
  THEN [operations |-> Append(acc.operations,
                              [type |-> "insert", text |-> change.value,
                               insertAfterPos |-> acc.originalPosition]),
        originalPosition |-> acc.originalPosition]
  ELSE [acc EXCEPT !.originalPosition = acc.originalPosition + Len(change.value)]

\* the loop of calculateDiff over the changes from the i-th on
RECURSIVE DiffLoop(_, _, _)
DiffLoop(changes, i, acc) ==
  IF i > Len(changes) THEN acc.operations
  ELSE DiffLoop(changes, i + 1, DiffStep(acc, changes[i]))

calculateDiff_OneBased(changes) ==
  DiffLoop(changes, 1, [operations |-> <<>>, originalPosition |-> 1])

\* calculateDiff(originalText, newText), changes being the answer of
\* diff.diffWordsWithSpace(originalText, newText)
calculateDiff(changes) ==
  DiffLoop(changes, 1, [operations |-> <<>>, originalPosition |-> 0])

InitDiff ==
  /\ ControllerInit
  /\ inOrder = FALSE /\ session = NoSession
  /\ \E k \in 0..MaxParts : \E changes \in [1..k -> Parts] :
       call = [fn |-> "calculateDiff", originalText |-> OriginalTextOf(changes),
               newText |-> NewTextOf(changes), changes |-> changes,
               done |-> FALSE, result |-> <<>>]

\* calculateDiff(originalText, newText) returns
CallCalculateDiff ==
  /\ call.fn = "calculateDiff"
  /\ ~call.done
  /\ call' = [call EXCEPT !.done = TRUE, !.result = calculateDiff(call.changes)]
  /\ ControllerIdle

NextDiff == CallCalculateDiff

SpecDiff == InitDiff /\ [][NextDiff]_vars


\* ============================================================ RPC session
\* The session of attach() in nvim.ts, from the moment the socket is
\* connected.  The host sends Responses, Requests and Notifications in any
\* order; a message is dispatched by the data handler in the step in which it
\* arrives (received counts them, lastMessage is the latest).  A future is the
\* promise call() returned.
Null == "null"

\* the methods of inbound Requests ("x" is never registered) and the names of
\* inbound Notifications
Methods == {"m", "x"}
Names == {"n"}

\* the promise of a call() and, once settled, the id of the Response that
\* settled it
Future(method) ==
  [method |-> method, state |-> "pending", error |-> Null, result |-> Null, by |-> 0]

\* processQueue(): write the queued messages to the socket, first to last
RECURSIVE processQueue(_)
processQueue(s) ==
  IF s.messageOutQueue = <<>> THEN s
  ELSE processQueue([s EXCEPT !.messageOutQueue = Tail(@),
                              !.stream = Append(@, Head(s.messageOutQueue))])

\* a push that leaves the writing to a later processQueue()
Pushed_NotWritten(s, message) ==
  [s EXCEPT !.messageOutQueue = Append(@, message),
            !.enqueued = Append(@, message)]

\* messageOutQueue.push(message); processQueue()
Pushed(s, message) ==
  processQueue([s EXCEPT !.messageOutQueue = Append(@, message),
                         !.enqueued = Append(@, message)])

\* messageOutQueue.unshift(message); ...; processQueue()
Unshifted(s, message) ==
  processQueue([s EXCEPT !.messageOutQueue = <<message>> \o @,
                         !.enqueued = Append(@, message)])

\* call(method, args): a new id, a once-listener for its Response, the
\* Request queued and written
Call(s, method) ==
  LET reqId == s.lastReqId + 1
      listening == [s EXCEPT !.lastReqId = reqId,
                             !.futures = Append(@, Future(method)),
                             !.emitter[reqId] = @ \cup {reqId}]
  IN Pushed(listening, [type |-> REQUEST, id |-> reqId, method |-> method])

\* notify(method, args)
notify(s, method) == Pushed(s, [type |-> NOTIFY, method |-> method])

\* a listener that resolves whatever the Response carries
Settled_AlwaysResolves(future, message) ==
  IF future.state # "pending" THEN future
  ELSE [future EXCEPT !.state = "resolved", !.result = message.result, !.by = message.id]

\* the listener of call(): reject when error is set, resolve otherwise; a
\* settled promise stays as it is
Settled(future, message) ==
  IF future.state # "pending" THEN future
  ELSE IF message.error # Null
  THEN [future EXCEPT !.state = "rejected", !.error = message.error, !.by = message.id]
  ELSE [future EXCEPT !.state = "resolved", !.result = message.result, !.by = message.id]

\* an emit that hands a Response nobody waits for to the oldest pending call
EmitResponse_ToOldestPending(s, message) ==
  LET waiting == UNION {s.emitter[i] : i \in DOMAIN s.emitter}
      invokedCalls == IF message.id \in DOMAIN s.emitter /\ s.emitter[message.id] # {}
                      THEN s.emitter[message.id]
                      ELSE {k \in waiting : \A j \in waiting : k <= j}
  IN [s EXCEPT !.emitter = [i \in DOMAIN @ |-> @[i] \ invokedCalls],
               !.futures = [k \in DOMAIN @ |->
                              IF k \in invokedCalls THEN Settled(@[k], message) ELSE @[k]]]

\* emitter.emit(`response-${message[1]}`, message[2], message[3]): the
\* once-listeners of that event are removed and invoked
EmitResponse(s, message) ==
  LET invokedCalls == IF message.id \in DOMAIN s.emitter THEN s.emitter[message.id] ELSE {}
  IN [s EXCEPT !.emitter = [i \in DOMAIN @ |-> IF i = message.id THEN {} ELSE @[i]],
               !.futures = [k \in DOMAIN @ |->
                              IF k \in invokedCalls THEN Settled(@[k], message) ELSE @[k]]]

\* the handlers of a Notification invoked last-registered first
InvokeNotificationHandlers_Reversed(s, message) ==
  LET handlers == s.notificationHandlers[message.method]
  IN [s EXCEPT !.invoked = @ \o [i \in 1..Len(handlers) |->
                                   <<message.method, handlers[Len(handlers) + 1 - i]>>]]

\* handlers?.forEach((h) => h(message[2])) for a Notification
InvokeNotificationHandlers(s, message) ==
  LET handlers == s.notificationHandlers[message.method]
  IN [s EXCEPT !.invoked = @ \o [i \in 1..Len(handlers) |-> <<message.method, handlers[i]>>]]

\* `no handler for ${message[2]}`
NoHandlerFor(method) ==
  IF method = "m" THEN "no handler for m" ELSE "no handler for x"

\* the Response to an inbound Request
ResponseTo(request, error, result) ==
  [type |-> RESPONSE, id |-> request.id, error |-> error, result |-> result]

\* a dispatch that leaves a Request without a handler unanswered
DispatchRequest_HandlerOnly(s, message) ==
  [s EXCEPT !.inboundRequests =
     Append(@, [id |-> message.id, method |-> message.method,
                status |-> IF message.method \in s.requestHandlers
                           THEN "running" ELSE "answered",
                awaiting |-> 0])]

\* the data handler for an inbound Request: without a handler the error
\* Response is queued and written; with one the handler is invoked and awaited
DispatchRequest(s, message) ==
  IF message.method \notin s.requestHandlers
  THEN Unshifted([s EXCEPT !.inboundRequests =
                     Append(@, [id |-> message.id, method |-> message.method,
                                status |-> "answered", awaiting |-> 0])],
                 ResponseTo(message, NoHandlerFor(message.method), Null))
  ELSE [s EXCEPT !.inboundRequests =
          Append(@, [id |-> message.id, method |-> message.method,
                     status |-> "running", awaiting |-> 0])]

\* a data handler that is busy while a request handler is pending: the
\* message is read and not dispatched
OnData_BusyWhileHandling(s, message) ==
  LET seen == [s EXCEPT !.received = @ + 1, !.lastMessage = message]
  IN IF \E j \in 1..Len(s.inboundRequests) : s.inboundRequests[j].status = "running"
     THEN seen
     ELSE IF message.type = NOTIFY THEN InvokeNotificationHandlers(seen, message)
     ELSE IF message.type = RESPONSE THEN EmitResponse(seen, message)
     ELSE DispatchRequest(seen, message)

\* unpackrStream.on("data", ...): one inbound message
OnData(s, message) ==
  LET seen == [s EXCEPT !.received = @ + 1, !.lastMessage = message]
  IN IF message.type = NOTIFY THEN InvokeNotificationHandlers(seen, message)
     ELSE IF message.type = RESPONSE THEN EmitResponse(seen, message)
     ELSE DispatchRequest(seen, message)

\* the socket is connected, attach() has not sent anything yet
ConnectedSession ==
  [phase |-> "connected", transport |-> "open", lastReqId |-> 0,
   emitter |-> [i \in 1..MaxReqId |-> {}], futures |-> <<>>,
   messageOutQueue |-> <<>>, stream |-> <<>>, enqueued |-> <<>>,
   notificationHandlers |-> [n \in Names |-> <<>>], requestHandlers |-> {},
   inboundRequests |-> <<>>, invoked |-> <<>>, received |-> 0,
   lastMessage |-> [type |-> NOTIFY, method |-> Null],
   channelId |-> Null]

InitRpc ==
  /\ ControllerInit
  /\ inOrder = FALSE
  /\ call = NoCall
  /\ session = ConnectedSession

\* a step of the session; the controller is not running
SessionBecomes(s) ==
  /\ session' = s
  /\ UNCHANGED <<state, namespaceId, renderedBufferId, requestCounter, tasks, nTasks,
                 bufLines, curBuf, cursor, mode, marks, escMap, txtListen, predActive,
                 hostEvents, inOrder, queue, call>>

\* await call("nvim_set_client_info", ...)
AttachIdentifies ==
  /\ session.phase = "connected"
  /\ SessionBecomes([Call(session, "nvim_set_client_info") EXCEPT !.phase = "identify"])

\* the identification is answered: await call("nvim_get_api_info", [])
AttachQueriesChannel ==
  /\ session.phase = "identify"
  /\ session.futures[1].state = "resolved"
  /\ SessionBecomes([Call(session, "nvim_get_api_info") EXCEPT !.phase = "metadata"])

\* attach() returning the session object as soon as the query is sent
AttachReturns_BeforeAnswer ==
  /\ session.phase = "metadata"
  /\ SessionBecomes([session EXCEPT !.phase = "ready",
                                    !.channelId = session.futures[2].result])

\* the query is answered: attach() returns the session object
AttachReturns ==
  /\ session.phase = "metadata"
  /\ session.futures[2].state = "resolved"
  /\ SessionBecomes([session EXCEPT !.phase = "ready",
                                    !.channelId = session.futures[2].result])

\* a call of the handshake is rejected: attach() rejects
AttachRejects ==
  /\ \/ session.phase = "identify" /\ session.futures[1].state = "rejected"
     \/ session.phase = "metadata" /\ session.futures[2].state = "rejected"
  /\ SessionBecomes([session EXCEPT !.phase = "failed"])

\* the owner of the session object calls call()
CallerCalls ==
  /\ session.phase = "ready"
  /\ session.lastReqId < MaxReqId
  /\ SessionBecomes(Call(session, "c"))

\* the owner of the session object calls notify()
CallerNotifies ==
  /\ session.phase = "ready"
  /\ Len(SelectSeq(session.enqueued, LAMBDA m : m.type = NOTIFY)) < MaxNotifies
  /\ SessionBecomes(notify(session, "c"))

\* onNotification(event, handler) with a new handler
RegisterNotificationHandler(name) ==
  /\ session.phase = "ready"
  /\ Len(session.notificationHandlers[name]) < MaxHandlers
  /\ SessionBecomes([session EXCEPT !.notificationHandlers[name] =
                       Append(@, Len(@) + 1)])

\* onRequest(method, handler)
RegisterRequestHandler ==
  /\ session.phase = "ready"
  /\ "m" \notin session.requestHandlers
  /\ SessionBecomes([session EXCEPT !.requestHandlers = @ \cup {"m"}])

\* the host may send while the transport is up
HostMaySend ==
  /\ session.phase # "none"
  /\ session.transport = "open"
  /\ session.received < MaxInbound

\* a Response arrives: any id, with or without an error
ResponseArrives(id, error) ==
  /\ HostMaySend
  /\ SessionBecomes(OnData(session, [type |-> RESPONSE, id |-> id, error |-> error,
                                     result |-> IF error = Null THEN "r" ELSE Null]))

\* a Request arrives; the host numbers its requests
RequestArrives(method) ==
  /\ HostMaySend
  /\ SessionBecomes(OnData(session, [type |-> REQUEST,
                                     id |-> Len(session.inboundRequests) + 1,
                                     method |-> method]))

\* a Notification arrives
NotificationArrives(name) ==
  /\ HostMaySend
  /\ SessionBecomes(OnData(session, [type |-> NOTIFY, method |-> name]))

\* the handler of the j-th inbound Request calls call() and awaits it
HandlerCalls(j) ==
  /\ j \in 1..Len(session.inboundRequests)
  /\ session.inboundRequests[j].status = "running"
  /\ session.inboundRequests[j].awaiting = 0
  /\ session.lastReqId < MaxReqId
  /\ SessionBecomes([Call(session, "c") EXCEPT
                       !.inboundRequests[j].awaiting = session.lastReqId + 1])

\* the handler of the j-th inbound Request returns (ok) or throws: the
\* Response is queued at the front and written
HandlerSettles(j, ok) ==
  /\ j \in 1..Len(session.inboundRequests)
  /\ LET request == session.inboundRequests[j]
     IN /\ request.status = "running"
        /\ request.awaiting # 0 => session.futures[request.awaiting].state # "pending"
        /\ SessionBecomes(
             Unshifted([session EXCEPT !.inboundRequests[j].status = "answered"],
                       IF ok THEN ResponseTo(request, Null, "ok")
                       ELSE ResponseTo(request, "Error: failed", Null)))

\* the socket emits "error" (logged) or "end" (logged): nothing else is done
SocketFails(event) ==
  /\ session.phase # "none"
  /\ session.transport = "open"
  /\ SessionBecomes([session EXCEPT !.transport = event])

NextRpc ==
  \/ AttachIdentifies
  \/ AttachQueriesChannel
  \/ AttachReturns
  \/ AttachRejects
  \/ CallerCalls
  \/ CallerNotifies
  \/ \E name \in Names : RegisterNotificationHandler(name)
  \/ RegisterRequestHandler
  \/ \E id \in 1..MaxReqId : \E error \in {Null, "e"} : ResponseArrives(id, error)
  \/ \E method \in Methods : RequestArrives(method)
  \/ \E name \in Names : NotificationArrives(name)
  \/ \E j \in 1..MaxInbound : HandlerCalls(j)
  \/ \E j \in 1..MaxInbound : \E ok \in BOOLEAN : HandlerSettles(j, ok)
  \/ \E event \in {"error", "end"} : SocketFails(event)

SpecRpc == InitRpc /\ [][NextRpc]_vars

\* the continuation of a handler that awaits a call runs once the call's
\* promise is settled
HandlerResumes ==
  \E j \in 1..MaxInbound : \E ok \in BOOLEAN :
    /\ j \in 1..Len(session.inboundRequests)
    /\ session.inboundRequests[j].awaiting # 0
    /\ HandlerSettles(j, ok)

\* the host answers a call that a request handler awaits
HostAnswersHandler ==
  \E j \in 1..MaxInbound : \E error \in {Null, "e"} :
    /\ j \in 1..Len(session.inboundRequests)
    /\ session.inboundRequests[j].status = "running"
    /\ session.inboundRequests[j].awaiting # 0
    /\ session.futures[session.inboundRequests[j].awaiting].state = "pending"
    /\ ResponseArrives(session.inboundRequests[j].awaiting, error)

SpecRpcFair == SpecRpc /\ WF_vars(HandlerResumes) /\ WF_vars(HostAnswersHandler)


\* ============================================================ inline edit
\* the violetInlineEdit handler examined on its own: Neovim waits in
\* vim.rpcrequest while the handler runs, so requests are handled one after
\* the other and the buffer changes only by the handler's own host calls.
\* log() appends to the log file and has no other effect.
NoSelection == <<>>
NoInput == [startLine |-> 0, endLine |-> 0, replace |-> <<>>]

\* the k-th line of the edited buffer
EditLine(k) == [i \in 1..(1 + (k % 2)) |-> <<"a", "b", "c", "d">>[((k - 1) % 4) + 1]]

\* the buffers an inline edit starts from
EditBuffers == {[k \in 1..n |-> EditLine(k)] : n \in 1..MaxEditLines}

\* the replace texts of a tool input
ReplaceTexts == {<<>>, <<"x">>, <<"x", NL, "y">>, <<"x", NL>>}

\* the tool inputs of an inline_edit reply for a buffer of n lines
InlineEditInputs(n) ==
  {[startLine |-> s, endLine |-> e, replace |-> r] :
     s \in 1..(n + 1), e \in 0..(n + 1), r \in ReplaceTexts}

\* the tool inputs of a replace_selection reply
ReplaceSelectionInputs == {[NoInput EXCEPT !.replace = r] : r \in ReplaceTexts}

\* req.selection ? replaceSelectionTool : inlineEditTool
ToolInputs(selection, n) ==
  IF selection # NoSelection THEN ReplaceSelectionInputs ELSE InlineEditInputs(n)

\* the visual selections the editor sends for a buffer (1-indexed, inclusive,
\* start before end)
Selections(lines) ==
  {sel \in [startLine : 1..Len(lines), startCol : 1..2,
            endLine : 1..Len(lines), endCol : 1..3] :
     \/ sel.startLine < sel.endLine
     \/ sel.startLine = sel.endLine /\ sel.startCol <= sel.endCol}

\* nvim_buf_set_lines refuses a range whose start is after its end
BufSetLinesFails(lines, start, end) == Min(start, Len(lines)) > Min(end, Len(lines))

\* nvim_buf_set_text(buf, start_row, start_col, end_row, end_col, repl)
\* refuses positions outside the buffer and a start after the end
BufSetTextFails(lines, startRow, startCol, endRow, endCol) ==
  \/ startRow < 0 \/ startRow >= Len(lines)
  \/ endRow < 0 \/ endRow >= Len(lines)
  \/ startCol < 0 \/ startCol > Len(lines[startRow + 1])
  \/ endCol < 0 \/ endCol > Len(lines[endRow + 1])
  \/ startRow > endRow
  \/ startRow = endRow /\ startCol > endCol

BufSetText(lines, startRow, startCol, endRow, endCol, repl) ==
  LET prefix == SubSeq(lines[startRow + 1], 1, startCol)
      suffix == SubSeq(lines[endRow + 1], endCol + 1, Len(lines[endRow + 1]))
      middle == IF Len(repl) = 1 THEN <<prefix \o repl[1] \o suffix>>
                ELSE <<prefix \o repl[1]>> \o SubSeq(repl, 2, Len(repl) - 1)
                       \o <<repl[Len(repl)] \o suffix>>
  IN SubSeq(lines, 1, startRow) \o middle \o SubSeq(lines, endRow + 2, Len(lines))

applyInlineEdit_EndExclusive(lines, startLine, endLine, replace) ==
  LET start0 == startLine - 1
      end0 == endLine - 1
      replacementLines == IF replace = <<>> THEN <<>> ELSE Split(replace, <<NL>>)
  IN IF BufSetLinesFails(lines, start0, end0)
     THEN [ok |-> FALSE, lines |-> lines]
     ELSE [ok |-> TRUE, lines |-> BufSetLines(lines, start0, end0, replacementLines)]

\* applyInlineEdit(nvim, bufnr, startLine, endLine, replace): the buffer after
\* its nvim_buf_set_lines call, ok = FALSE when the host refuses the call
applyInlineEdit(lines, startLine, endLine, replace) ==
  LET start0 == startLine - 1
      end0 == endLine
      replacementLines == IF replace = <<>> THEN <<>> ELSE Split(replace, <<NL>>)
  IN IF BufSetLinesFails(lines, start0, end0)
     THEN [ok |-> FALSE, lines |-> lines]
     ELSE [ok |-> TRUE, lines |-> BufSetLines(lines, start0, end0, replacementLines)]

\* applySelectionReplace(nvim, bufnr, selection, replacement), endLineContent
\* being the answer of its nvim_buf_get_lines call
applySelectionReplace(lines, endLineContent, selection, replacement) ==
  LET lineLength == IF endLineContent = <<>> THEN 0 ELSE Len(endLineContent[1])
      endCol == Min(selection.endCol, lineLength)
      replLines == Split(replacement, <<NL>>)
      startRow == selection.startLine - 1
      startCol == selection.startCol - 1
      endRow == selection.endLine - 1
  IN IF BufSetTextFails(lines, startRow, startCol, endRow, endCol)
     THEN [ok |-> FALSE, lines |-> lines]
     ELSE [ok |-> TRUE,
           lines |-> BufSetText(lines, startRow, startCol, endRow, endCol, replLines)]

\* the handler is waiting for the next violetInlineEdit request
InlineIdle(lines, requests, acks) ==
  [fn |-> "violetInlineEdit", pc |-> "idle", requests |-> requests, acks |-> acks,
   lines |-> lines, before |-> lines, selection |-> NoSelection, reply |-> "none",
   input |-> NoInput, endLineContent |-> <<>>, hostCalls |-> <<>>,
   applied |-> FALSE, error |-> Null]

InitInline ==
  /\ ControllerInit
  /\ inOrder = FALSE /\ session = NoSession
  /\ \E lines \in EditBuffers : call = InlineIdle(lines, 0, <<>>)

InlineBecomes(c) ==
  /\ call.fn = "violetInlineEdit"
  /\ call' = c
  /\ ControllerIdle

\* nvim.call(method, ...) of the handler
HostCalled(c, method, pc) ==
  [c EXCEPT !.pc = pc, !.hostCalls = c.hostCalls \o <<method>>]

\* the handler returns: the acknowledgement is the result of the Response
Returned(c, ack) ==
  [c EXCEPT !.pc = "idle", !.acks = c.acks \o <<ack>>]

\* the catch branch of the handler: the failure is logged and sent to
\* nvim_notify before it is acknowledged
Caught(c, message) ==
  HostCalled([c EXCEPT !.error = message], "nvim_notify", "notify")

\* the editor sends a violetInlineEdit request; the handler runs up to the
\* model call of performInlineEdit
InlineEditRequested ==
  /\ call.pc = "idle"
  /\ call.requests < MaxEdits
  /\ \E sel \in {NoSelection} \cup {<<s>> : s \in Selections(call.lines)} :
       InlineBecomes([InlineIdle(call.lines, call.requests + 1, call.acks)
                        EXCEPT !.pc = "model", !.selection = sel])

\* client.messages.create resolves with a tool_use block
InlineModelReplies ==
  /\ call.pc = "model"
  /\ \E input \in ToolInputs(call.selection, Len(call.lines)) :
       LET c == [call EXCEPT !.reply = "tool_use", !.input = input]
       IN IF call.selection # NoSelection
          THEN InlineBecomes(HostCalled(c, "nvim_buf_get_lines", "get_lines"))
          ELSE InlineBecomes(HostCalled(c, "nvim_buf_set_lines", "set_lines"))

\* client.messages.create resolves without a tool_use block
InlineModelNoToolUse ==
  /\ call.pc = "model"
  /\ InlineBecomes(Caught([call EXCEPT !.reply = "no_tool_use"],
                          "No tool use in response"))

\* client.messages.create rejects
InlineModelRejects ==
  /\ call.pc = "model"
  /\ InlineBecomes(Caught([call EXCEPT !.reply = "rejected"], "model error"))

\* the host answers nvim_buf_get_lines of applySelectionReplace, which then
\* calls nvim_buf_set_text
HostAnswersGetLines ==
  /\ call.pc = "get_lines"
  /\ LET sel == call.selection[1]
         content == BufGetLines(call.lines, sel.endLine - 1, sel.endLine)
     IN InlineBecomes(HostCalled([call EXCEPT !.endLineContent = content],
                                 "nvim_buf_set_text", "set_text"))

Answered_AlwaysSuccess(c, r, failure) ==
  Returned([c EXCEPT !.lines = r.lines, !.applied = r.ok],
           [success |-> TRUE, error |-> Null])

\* the rest of the handler once the buffer-modifying call is answered
Answered(c, r, failure) ==
  IF r.ok THEN Returned([c EXCEPT !.lines = r.lines, !.applied = TRUE],
                        [success |-> TRUE, error |-> Null])
  ELSE Caught(c, failure)

\* the host executes nvim_buf_set_text and answers
HostAnswersSetText ==
  /\ call.pc = "set_text"
  /\ InlineBecomes(Answered(call,
       applySelectionReplace(call.lines, call.endLineContent, call.selection[1],
                             call.input.replace),
       "Invalid range"))

\* the host executes nvim_buf_set_lines of applyInlineEdit and answers
HostAnswersSetLines ==
  /\ call.pc = "set_lines"
  /\ InlineBecomes(Answered(call,
       applyInlineEdit(call.lines, call.input.startLine, call.input.endLine,
                       call.input.replace),
       "'start' is higher than 'end'"))

\* the host answers nvim_notify: the handler returns the failure
HostAnswersNotify ==
  /\ call.pc = "notify"
  /\ InlineBecomes(Returned(call, [success |-> FALSE, error |-> call.error]))

HostAnswersInline ==
  \/ HostAnswersGetLines
  \/ HostAnswersSetText
  \/ HostAnswersSetLines
  \/ HostAnswersNotify

ModelAnswersInline ==
  \/ InlineModelReplies
  \/ InlineModelNoToolUse
  \/ InlineModelRejects

NextInline ==
  \/ InlineEditRequested
  \/ InlineModelReplies
  \/ InlineModelNoToolUse
  \/ InlineModelRejects
  \/ HostAnswersGetLines
  \/ HostAnswersSetText
  \/ HostAnswersSetLines
  \/ HostAnswersNotify

SpecInline == InitInline /\ [][NextInline]_vars

\* the host answers every call (the transport stays open) and the model call
\* settles
SpecInlineFair ==
  SpecInline /\ WF_vars(HostAnswersInline) /\ WF_vars(ModelAnswersInline)

\* ==================================================== host-side listeners
\* the prediction listeners of the editor side examined on their own.
\* keymaps[b] holds the closures mapped to <Esc> in normal mode in buffer b
\* (vim.keymap.set replaces the mapping of a key), augroups[b] the id of the
\* group "VioletPredictionTextChanged" .. b (0: no such group), autocmds[b]
\* the autocmds of that group; every closure, group and autocmd gets a fresh
\* id.
LuaHost ==
  [fn |-> "listeners",
   esc_mappings |-> [b \in Bufs |-> FALSE],
   text_changed_autocmds |-> [b \in Bufs |-> 0],
   keymaps |-> [b \in Bufs |-> {}],
   augroups |-> [b \in Bufs |-> 0],
   autocmds |-> [b \in Bufs |-> {}],
   nextId |-> 1,
   calls |-> 0,
   last |-> [f |-> "none", bufnr |-> 0]]

\* M.setup_prediction_esc_mapping(bufnr)
setup_prediction_esc_mapping(h, bufnr) ==
  IF h.esc_mappings[bufnr] THEN h
  ELSE [h EXCEPT !.keymaps[bufnr] = {h.nextId},
                 !.nextId = h.nextId + 1,
                 !.esc_mappings[bufnr] = TRUE]

\* M.cleanup_prediction_esc_mapping(bufnr)
cleanup_prediction_esc_mapping(h, bufnr) ==
  IF ~h.esc_mappings[bufnr] THEN h
  ELSE [h EXCEPT !.keymaps[bufnr] = {},
                 !.esc_mappings[bufnr] = FALSE]

\* nvim_create_augroup(name, {clear = true}) followed by nvim_create_autocmd
\* in that group: an existing group keeps its id and loses its autocmds
CreateGroupWithAutocmd(h, bufnr) ==
  IF h.augroups[bufnr] # 0
  THEN [h EXCEPT !.autocmds[bufnr] = {h.nextId}, !.nextId = h.nextId + 1]
  ELSE [h EXCEPT !.augroups[bufnr] = h.nextId,
                 !.autocmds[bufnr] = {h.nextId + 1},
                 !.nextId = h.nextId + 2]

listen_for_text_changed_Unguarded(h, bufnr) ==
  LET g == CreateGroupWithAutocmd(h, bufnr)
  IN [g EXCEPT !.text_changed_autocmds[bufnr] = g.augroups[bufnr]]

\* M.listen_for_text_changed(bufnr)
listen_for_text_changed(h, bufnr) ==
  IF h.text_changed_autocmds[bufnr] # 0 THEN h
  ELSE LET g == CreateGroupWithAutocmd(h, bufnr)
       IN [g EXCEPT !.text_changed_autocmds[bufnr] = g.augroups[bufnr]]

\* pcall(vim.api.nvim_del_augroup_by_id, group)
DelAugroupById(h, group) ==
  [h EXCEPT !.augroups = [b \in Bufs |-> IF h.augroups[b] = group THEN 0
                                         ELSE h.augroups[b]],
            !.autocmds = [b \in Bufs |-> IF h.augroups[b] = group THEN {}
                                         ELSE h.autocmds[b]]]

\* M.cleanup_listen_for_text_changed(bufnr)
cleanup_listen_for_text_changed(h, bufnr) ==
  LET group == h.text_changed_autocmds[bufnr]
  IN IF group = 0 THEN h
     ELSE [DelAugroupById(h, group) EXCEPT !.text_changed_autocmds[bufnr] = 0]

InitListeners ==
  /\ ControllerInit
  /\ inOrder = FALSE /\ session = NoSession
  /\ call = LuaHost

\* nvim_exec_lua runs one of the four functions for a buffer
LuaCalled(f, bufnr, h) ==
  /\ call.fn = "listeners"
  /\ call.calls < MaxLuaCalls
  /\ call' = [h EXCEPT !.calls = call.calls + 1, !.last = [f |-> f, bufnr |-> bufnr]]
  /\ ControllerIdle

SetupEscMapping(bufnr) ==
  LuaCalled("setup_prediction_esc_mapping", bufnr,
            setup_prediction_esc_mapping(call, bufnr))

CleanupEscMapping(bufnr) ==
  LuaCalled("cleanup_prediction_esc_mapping", bufnr,
            cleanup_prediction_esc_mapping(call, bufnr))

ListenForTextChanged(bufnr) ==
  LuaCalled("listen_for_text_changed", bufnr, listen_for_text_changed(call, bufnr))

CleanupListenForTextChanged(bufnr) ==
  LuaCalled("cleanup_listen_for_text_changed", bufnr,
            cleanup_listen_for_text_changed(call, bufnr))

NextListeners ==
  \/ \E bufnr \in Bufs : SetupEscMapping(bufnr)
  \/ \E bufnr \in Bufs : CleanupEscMapping(bufnr)
  \/ \E bufnr \in Bufs : ListenForTextChanged(bufnr)
  \/ \E bufnr \in Bufs : CleanupListenForTextChanged(bufnr)

SpecListeners == InitListeners /\ [][NextListeners]_vars

\* ------------------------------------------------- convertCharPosToLineCol
\* the texts, with and without line breaks, the offsets into them and the
\* first lines of a window
PosTexts == TextsUpTo({"a", NL}, MaxPosLen)

InitLineCol ==
  /\ ControllerInit
  /\ inOrder = FALSE /\ session = NoSession
  /\ \E text \in PosTexts : \E charPos \in 0..Len(text) :
     \E startLine \in 0..MaxStartLine :
       call = [fn |-> "convertCharPosToLineCol", text |-> text, charPos |-> charPos,
               startLine |-> startLine, done |-> FALSE,
               result |-> [row |-> 0, col |-> 0]]

\* convertCharPosToLineCol(text, charPos, startLine, 0) returns
CallConvertCharPosToLineCol ==
  /\ call.fn = "convertCharPosToLineCol"
  /\ ~call.done
  /\ call' = [call EXCEPT !.done = TRUE,
                          !.result = convertCharPosToLineCol(call.text, call.charPos,
                                                             call.startLine, 0)]
  /\ ControllerIdle

NextLineCol == CallConvertCharPosToLineCol

SpecLineCol == InitLineCol /\ [][NextLineCol]_vars

\* ================================================== editor-side bootstrap
\* The module state of the Lua plugin that when_ready works on; callbacks are
\* numbered in the order they are passed, 0 is nil.  job is the outcome of
\* jobstart, timer the vim.defer_fn of when_ready, scheduled the callbacks
\* handed to vim.schedule; ran and timedOut record what became of a callback.
Callbacks == 1..MaxCallbacks

LuaBootstrap ==
  [fn |-> "when_ready",
   channel_id |-> 0,
   starting |-> FALSE,
   on_ready_callback |-> 0,
   jobs |-> 0,
   job |-> "none",
   timer |-> "none",
   scheduled |-> {},
   ran |-> [k \in Callbacks |-> 0],
   timedOut |-> {},
   passed |-> 0]

\* M.start(); ok tells whether jobstart returns a job id
start(m, ok) ==
  IF m.starting THEN m
  ELSE [m EXCEPT !.starting = TRUE,
                 !.jobs = @ + 1,
                 !.job = IF ok THEN "running" ELSE "failed"]

\* M.bridge(channel_id), as far as the pending callback is concerned
bridge(m, channel_id) ==
  LET m1 == [m EXCEPT !.channel_id = channel_id]
  IN IF m1.on_ready_callback # 0
       THEN [m1 EXCEPT !.on_ready_callback = 0,
                       !.scheduled = @ \cup {m1.on_ready_callback}]
     ELSE m1

\* M.when_ready(callback)
when_ready(m, callback, ok) ==
  IF m.channel_id # 0 THEN [m EXCEPT !.ran[callback] = @ + 1]
  ELSE LET m1 == [m EXCEPT !.on_ready_callback = callback]
       IN IF ~m1.starting THEN [start(m1, ok) EXCEPT !.timer = "armed"]
          ELSE m1

\* the function when_ready defers by 5000 ms
connection_timeout(m) ==
  IF m.on_ready_callback # 0
    THEN [m EXCEPT !.on_ready_callback = 0,
                   !.timedOut = @ \cup {m.on_ready_callback}]
  ELSE m

InitBootstrap ==
  /\ ControllerInit
  /\ inOrder = FALSE /\ session = NoSession
  /\ call = LuaBootstrap

\* a command or key mapping of the plugin calls when_ready with a new callback
WhenReadyCalled ==
  /\ call.fn = "when_ready"
  /\ call.passed < MaxCallbacks
  /\ \E ok \in BOOLEAN :
       call' = [when_ready(call, call.passed + 1, ok) EXCEPT !.passed = call.passed + 1]
  /\ ControllerIdle

\* the backend process has attached and calls bridge through nvim_exec_lua
BridgeCalled ==
  /\ call.fn = "when_ready"
  /\ call.job = "running"
  /\ call.channel_id = 0
  /\ call' = bridge(call, 1)
  /\ ControllerIdle

\* the 5000 ms of the deferred function have passed
TimeoutFires ==
  /\ call.fn = "when_ready"
  /\ call.timer = "armed"
  /\ call' = [connection_timeout(call) EXCEPT !.timer = "fired"]
  /\ ControllerIdle

\* the event loop runs a callback given to vim.schedule
ScheduledRuns ==
  /\ call.fn = "when_ready"
  /\ \E k \in call.scheduled :
       call' = [call EXCEPT !.scheduled = @ \ {k}, !.ran[k] = @ + 1]
  /\ ControllerIdle

NextBootstrap ==
  \/ WhenReadyCalled
  \/ BridgeCalled
  \/ TimeoutFires
  \/ ScheduledRuns

SpecBootstrap == InitBootstrap /\ [][NextBootstrap]_vars

\* =================================================================== claims
\* the task t is resumed (or finishes) in this step
Resumed(t) == t \in 1..nTasks /\ tasks'[t] # tasks[t]

\* the request of task t is the one the controller awaits the reply of
IsCurrentRequest(t) ==
  state.type = "awaiting-agent-reply" /\ state.requestId = tasks[t].requestId

\* the model requests in flight
InFlight == {t \in 1..nTasks : tasks[t].pc = "model"}

\* C1: while the state is awaiting-agent-reply, a trigger, an accept-only and a
\* dismiss notification (with or without buffer id) change nothing: the state
\* with its requestId and context, the request counter, the other handlers and
\* the host stay as they are, and the new handler returns at once (it sends no
\* model request).
C1_AwaitingIgnoresNotifications ==
  [][(state.type = "awaiting-agent-reply" /\ nTasks' = nTasks + 1) =>
       /\ state' = state
       /\ requestCounter' = requestCounter
       /\ renderedBufferId' = renderedBufferId
       /\ tasks'[nTasks'].pc = "done"
       /\ \A t \in 1..nTasks : tasks'[t] = tasks[t]
       /\ hostVars' = hostVars]_vars

\* a trigger notification was ignored (triggerOrAccept returns early only in
\* awaiting-agent-reply) and the controller still awaits the reply
C1_Witness ==
  /\ state.type = "awaiting-agent-reply"
  /\ \E t \in 1..nTasks : tasks[t].kind = "trigger" /\ tasks[t].result = "noop"

\* C2: at most one prediction model request is in flight at any time.
C2_SingleFlight == Cardinality(InFlight) <= 1

\* C3: a successful model reply (with or without tool_use) for a request that
\* is not the requestId of the current awaiting-agent-reply state is discarded:
\* the handler returns, the controller and the host (decorations, listeners)
\* are unchanged.
C3_StaleReplyDiscarded ==
  [][\A t \in 1..nTasks :
       (/\ tasks[t].pc = "model"
        /\ tasks'[t].pc # "model"
        /\ tasks'[t].reply # "rejected"
        /\ ~IsCurrentRequest(t)) =>
         /\ tasks'[t].pc = "done"
         /\ ctlVars' = ctlVars
         /\ hostVars' = hostVars]_vars

\* a reply was discarded at the stale check while a preview is displayed
C3_Witness ==
  /\ state.type = "displaying-proposed-edit"
  /\ \E t \in 1..nTasks : tasks[t].result = "stale"

\* C4: the rejection of a superseded model request changes neither the state
\* nor the rendered decorations nor the listeners.
C4_StaleRejectionIgnored ==
  [][\A t \in 1..nTasks :
       (/\ Resumed(t)
        /\ tasks[t].reply = "rejected" \/ tasks'[t].reply = "rejected"
        /\ ~IsCurrentRequest(t)) =>
         /\ state' = state
         /\ marks' = marks
         /\ escMap' = escMap
         /\ txtListen' = txtListen]_vars

\* C5: in awaiting-agent-reply the requestId is the request counter.
C5_RequestIdIsLatest ==
  state.type = "awaiting-agent-reply" => state.requestId = requestCounter

\* C6: the state changes only from idle to awaiting-agent-reply, from
\* awaiting-agent-reply to displaying-proposed-edit or idle, from
\* displaying-proposed-edit to prediction-being-applied or idle, and from
\* prediction-being-applied to idle.
C6_Transitions ==
  [][state' # state =>
       <<state.type, state'.type>> \in
         { <<"idle", "awaiting-agent-reply">>,
           <<"awaiting-agent-reply", "displaying-proposed-edit">>,
           <<"awaiting-agent-reply", "idle">>,
           <<"displaying-proposed-edit", "prediction-being-applied">>,
           <<"displaying-proposed-edit", "idle">>,
           <<"prediction-being-applied", "idle">> }]_vars

\* some line of the captured context differs from the line the buffer has at
\* its place in the captured window, or the buffer has no such line any more
WindowDiffers(context) ==
  \E i \in 1..Len(context.contextLines) :
    \/ context.startLine + i > Len(bufLines[context.bufferId])
    \/ context.startLine + i > context.endLine + 1
    \/ bufLines[context.bufferId][context.startLine + i] # context.contextLines[i]

\* C7: if, when accept reads the captured window back, a line differs from the
\* captured line (or is missing), accept throws "Context window has changed",
\* the state is idle and no buffer line is modified.
C7_ChangedContextAborts ==
  [][\A t \in 1..nTasks :
       (tasks[t].pc = "a_lines" /\ Resumed(t) /\ WindowDiffers(tasks[t].context)) =>
         /\ tasks'[t].pc = "done"
         /\ tasks'[t].result = "context changed"
         /\ state' = IdleState
         /\ bufLines' = bufLines]_vars

\* an accept was aborted because the captured window had become shorter
C7_Witness ==
  /\ state = IdleState
  /\ bufLines[1] = <<A>>
  /\ \E t \in 1..nTasks : tasks[t].result = "context changed"

\* C8: nvim_buf_set_lines is pending only for an accept that has read the
\* whole captured window back, found every captured line equal and resolved
\* the find text; an accept whose comparison or resolution fails ends without
\* it; and nothing but that call (and the user) changes a buffer line.
C8_NoApplyUntilVerified ==
  [][/\ \A t \in 1..nTasks :
          tasks'[t].pc = "a_set" =>
            /\ Len(tasks'[t].currentLines) >= Len(tasks'[t].context.contextLines)
            /\ \A i \in 1..Len(tasks'[t].context.contextLines) :
                 tasks'[t].currentLines[i] = tasks'[t].context.contextLines[i]
            /\ \/ Includes(Join(tasks'[t].context.contextLines, <<NL>>),
                           tasks'[t].prediction.find)
               \/ Includes(Join(tasks'[t].context.contextLines, <<NL>>),
                           StripMarker(tasks'[t].prediction.find))
            /\ tasks[t].pc \in {"a_lines", "a_set"}
     /\ bufLines' # bufLines =>
          \/ hostEvents' # hostEvents
          \/ \E t \in 1..nTasks : tasks[t].pc = "a_set" /\ Resumed(t)]_vars

\* a verified accept has sent nvim_buf_set_lines
C8_Witness == \E t \in 1..nTasks : tasks[t].pc = "a_set"

\* text with the first occurrence of findText replaced
ReplaceFirst(text, findText, replace) ==
  LET i == IndexOf(text, findText)
  IN Slice(text, 0, i) \o replace \o SliceFrom(text, i + Len(findText))

\* C9: the rewrite of accept leaves in the captured window exactly the lines
\* of the context text with the first occurrence of the resolved find text
\* replaced; later occurrences stay.
C9_FirstOccurrenceReplaced ==
  [][\A t \in 1..nTasks :
       (tasks[t].pc = "a_set" /\ Resumed(t)) =>
         LET context == tasks[t].context
             contextText == Join(context.contextLines, <<NL>>)
             findText == resolveFindText(tasks[t].prediction.find, contextText).text
             expected == replacedLines(ReplaceFirst(contextText, findText,
                                                    tasks[t].prediction.replace))
         IN bufLines'[context.bufferId] =
              BufSetLines(bufLines[context.bufferId], context.startLine,
                          context.endLine + 1, expected)]_vars

\* the number of line breaks before offset p of text
LineBreaksBefore(text, p) == Cardinality({i \in 1..p : text[i] = NL})

\* the number of characters between the last line break before offset p and p
ColumnAt(text, p) ==
  LET breaks == {i \in 1..p : text[i] = NL}
  IN IF breaks = {} THEN p ELSE p - (CHOOSE i \in breaks : \A j \in breaks : j <= i)

Occurs(pat, text) ==
  \E i \in 1..(Len(text) - Len(pat) + 1) : SubSeq(text, i, i + Len(pat) - 1) = pat

\* text without its cursor markers
WithoutMarkers(text) == SelectSeq(text, LAMBDA ch : ch # Marker)

\* C11: resolveFindText returns find itself when find occurs verbatim in the
\* context text; otherwise, when find contains the cursor marker and find
\* without its markers occurs in the context text, it returns find without
\* its markers; in every other case it fails (throws).
C11_FindResolutionRule ==
  (call.fn = "resolveFindText" /\ call.done) =>
    LET find == call.findText
        contextText == call.contextText
    IN IF Occurs(find, contextText)
         THEN call.result = [ok |-> TRUE, text |-> find]
       ELSE IF (\E k \in 1..Len(find) : find[k] = Marker)
               /\ Occurs(WithoutMarkers(find), contextText)
         THEN call.result = [ok |-> TRUE, text |-> WithoutMarkers(find)]
       ELSE ~call.result.ok

\* a find with two markers that is present only without them was resolved
C11_Witness ==
  /\ call.fn = "resolveFindText" /\ call.done
  /\ call.findText = <<Marker, "a", Marker>>
  /\ call.contextText = <<"b", "a">>
  /\ call.result = [ok |-> TRUE, text |-> <<"a">>]

\* C12: a resolution failure is handled as a prediction failure: when the
\* find text of the prediction is absent from the captured context, verbatim
\* and without markers, the operation that detects it (the rendering of the
\* preview or the accept) leaves the controller in idle, not in
\* displaying-proposed-edit and not in prediction-being-applied.
C12_ResolutionFailureEndsIdle ==
  [][\A t \in 1..MaxTasks :
       (Resumed(t) /\ tasks'[t].result = "find not found") => state'.type = "idle"]_vars

\* the model call of task t has failed: it rejected, or the reply of the
\* current request had no tool_use block
ModelFailed(tk) == tk.reply \in {"rejected", "no_tool_use"}

\* C13: when the model call of the current request rejects or its reply has
\* no structured tool result, the controller clears the in-progress marker,
\* returns to idle and surfaces the failure (nvim_notify is sent, then the
\* error is thrown); it renders no preview and does not modify the buffer.
C13_ModelFailureHandled ==
  [][\A t \in 1..MaxTasks :
       (Resumed(t) /\ (ModelFailed(tasks[t]) \/ ModelFailed(tasks'[t]))) =>
         \* no preview, no listener, no change of the buffer
         /\ bufLines' = bufLines
         /\ \A b \in Bufs : ("preview" \in marks'[b] => "preview" \in marks[b])
                             /\ (escMap'[b] => escMap[b])
                             /\ (txtListen'[b] => txtListen[b])
         /\ state'.type # "displaying-proposed-edit" \/ state' = state
         \* the rendered marker is cleared first
         /\ (tasks[t].pc = "model" /\ IsCurrentRequest(t) /\ renderedBufferId # 0) =>
              (tasks'[t].pc = "clr_ns" /\ tasks'[t].clearBuf = renderedBufferId)
         /\ tasks[t].pc = "clr_ns" => marks'[tasks[t].clearBuf] = {}
         \* then the state is idle and the host is notified
         /\ tasks'[t].pc = "f_notify" =>
              /\ state' = IdleState
              /\ Active = {t} => /\ \A b \in Bufs : marks'[b] = {}
                                 /\ renderedBufferId' = 0
                                 /\ ~predActive'
         \* and the error is thrown after the notification
         /\ tasks'[t].pc = "done" =>
              (tasks[t].pc = "f_notify" /\ tasks'[t].result = "prediction failed")]_vars

\* the notification handled by task t is dispatched in this step
Started(t) == t = nTasks + 1 /\ nTasks' = nTasks + 1

\* C14: a dismiss in state displaying-proposed-edit with no buffer id, or with
\* the buffer id of the state, clears the rendered preview and makes the state
\* idle; with another buffer id it is ignored: the state stays
\* displaying-proposed-edit, the preview stays rendered, no listener is removed.
C14_DismissScopedToBuffer ==
  [][\A t \in 1..MaxTasks :
       /\ (Started(t) /\ tasks'[t].kind = "dismiss"
             /\ state.type = "displaying-proposed-edit") =>
            IF tasks'[t].pc = "done"
              THEN /\ tasks'[t].result = "ignored"
                   /\ UNCHANGED <<ctlVars, hostVars>>
            ELSE /\ tasks'[t].bufnr \in {0, state.context.bufferId}
                 /\ "preview" \in marks[state.context.bufferId] =>
                      (tasks'[t].pc = "clr_ns"
                         /\ tasks'[t].clearBuf = state.context.bufferId)
       /\ (Resumed(t) /\ tasks[t].kind = "dismiss") =>
            /\ tasks[t].pc = "clr_ns" => marks'[tasks[t].clearBuf] = {}
            /\ tasks'[t].pc = "done" => state' = IdleState]_vars

\* C15: whenever the state leaves displaying-proposed-edit, by an accept or by
\* an effective dismiss, the escape mapping and the text-changed listener of
\* the state's buffer are removed; once the controller is idle again with no
\* operation in progress, no prediction listener is installed.
C15_ListenersTornDown ==
  (state.type = "idle" /\ Active = {}) =>
    \A b \in Bufs : ~escMap[b] /\ ~txtListen[b]

\* C16: at most one buffer has live prediction decorations (the in-progress
\* marker or a preview) at any time: when decorations are drawn for a
\* prediction, the decorations rendered before, in the same or in another
\* buffer, have been cleared.
C16_OneLiveDecoration ==
  /\ Cardinality({b \in Bufs : marks[b] # {}}) <= 1
  /\ \A b \in Bufs : Cardinality(marks[b]) <= 1

\* C17: for a cursor on 0-indexed row r of a buffer with n >= 1 lines
\* (0 <= r < n) the captured window is startLine = max(0, r - 10) and
\* endLine = min(n - 1, r + 20); so 0 <= startLine <= r <= endLine <= n - 1,
\* the window has at most 31 lines and the cursor row-delta r - startLine lies
\* in 0..10.
C17_WindowArithmetic ==
  (call.fn = "captureContextWindow" /\ call.done) =>
    LET r == call.cursor[1] - 1
        n == call.totalLines
        c == call.result
    IN /\ c.startLine = (IF r - 10 > 0 THEN r - 10 ELSE 0)
       /\ c.endLine = (IF r + 20 < n - 1 THEN r + 20 ELSE n - 1)
       /\ 0 <= c.startLine /\ c.startLine <= r
       /\ r <= c.endLine /\ c.endLine <= n - 1
       /\ c.endLine - c.startLine + 1 <= 31
       /\ Len(c.contextLines) = c.endLine - c.startLine + 1
       /\ c.cursorDelta = r - c.startLine
       /\ c.cursorDelta \in 0..10

\* a window clipped at neither end: 31 lines around row 10 of 32 lines
C17_Witness ==
  /\ call.fn = "captureContextWindow" /\ call.done
  /\ call.cursor[1] = 11 /\ call.totalLines = 32
  /\ call.result.startLine = 0 /\ call.result.endLine = 30
  /\ Len(call.result.contextLines) = 31

\* the estimated tokens of a change: ceil(formatted length / 3)
ClaimTokens(change) == 0 - ((0 - Len(FormatChange(change))) \div 3)

\* the summed estimated tokens of the last j changes of the history
RECURSIVE SuffixTokens(_, _)
SuffixTokens(history, j) ==
  IF j = 0 THEN 0
  ELSE ClaimTokens(history[Len(history) - j + 1]) + SuffixTokens(history, j - 1)

\* C18: the changes included in the prompt are exactly the longest suffix of
\* the change history whose summed estimated tokens (ceil(formatted length / 3)
\* per change) do not exceed the token budget (default 1000), in
\* chronological order; no change is skipped to take older ones.
C18_LongestSuffixWithinBudget ==
  (call.fn = "buildPredictionPrompt" /\ call.done) =>
    LET history == call.recentChanges
        n == Len(history)
        budget == IF call.tokenBudget = <<>> THEN 1000 ELSE call.tokenBudget[1]
    IN \E k \in 0..n :
         /\ call.result = [i \in 1..k |-> FormatChange(history[n - k + i])]
         /\ SuffixTokens(history, k) <= budget
         /\ \A j \in (k + 1)..n : SuffixTokens(history, j) > budget

\* with the default budget the newest change (4 tokens) is included, the one
\* before it (997 tokens) does not fit, and the oldest (4 tokens), which
\* would fit, is not taken
C18_Witness ==
  /\ call.fn = "buildPredictionPrompt" /\ call.done
  /\ call.tokenBudget = <<>>
  /\ Len(call.recentChanges) = 3
  /\ ClaimTokens(call.recentChanges[1]) = 4
  /\ ClaimTokens(call.recentChanges[2]) = 997
  /\ ClaimTokens(call.recentChanges[3]) = 4
  /\ call.result = <<FormatChange(call.recentChanges[3])>>

\* C19: after any sequence of adds on a history of capacity N the length is at
\* most N and the list is, oldest first, the last min(N, k) of the k added
\* changes that had a non-empty file path (so an add with an empty file path
\* leaves it unchanged); capacity + 50 accepted adds on capacity 200 leave
\* exactly 200 entries, the 50 oldest evicted.
C19_HistoryIsBoundedTail ==
  call.fn = "ChangeTracker" =>
    LET N == call.maxChanges
        withPath == SelectSeq(call.added, LAMBDA c : c.filePath # <<>>)
        k == Len(withPath)
        m == IF N < k THEN N ELSE k
    IN /\ Len(call.changes) <= N
       /\ call.changes = [i \in 1..m |-> withPath[k - m + i]]
       /\ (N = 200 /\ k = 250) =>
            /\ Len(call.changes) = 200
            /\ call.changes[1] = withPath[51]
            /\ call.changes[200] = withPath[250]

\* the default history after 250 accepted adds and a rejected one
C19_Witness ==
  /\ call.fn = "ChangeTracker"
  /\ call.maxChanges = 200
  /\ Len(call.changes) = 200
  /\ Len(call.added) > 250
  /\ call.added[Len(call.added)].filePath # <<>>
  /\ Len(SelectSeq(call.added, LAMBDA c : c.filePath # <<>>)) = 250

\* the operations from the i-th on applied left to right to the original
\* text, of which the first pos characters are dealt with and out is what
\* they became: a Delete drops the characters of its range, an Insert puts
\* its text before the character at its anchor
RECURSIVE Applied(_, _, _, _, _)
Applied(original, operations, i, pos, out) ==
  IF i > Len(operations) THEN out \o SubSeq(original, pos + 1, Len(original))
  ELSE LET op == operations[i]
       IN IF op.type = "delete"
          THEN Applied(original, operations, i + 1, op.endPos,
                       out \o SubSeq(original, pos + 1, op.startPos))
          ELSE Applied(original, operations, i + 1, op.insertAfterPos,
                       out \o SubSeq(original, pos + 1, op.insertAfterPos) \o op.text)

\* C20: applying the operations returned by calculateDiff(original, modified)
\* in emission order to a copy of original, each Delete removing its half-open
\* range and each Insert inserting its text at its anchor, both in coordinates
\* of the original, reproduces modified exactly.
C20_DiffRoundTrip ==
  (call.fn = "calculateDiff" /\ call.done) =>
    /\ Applied(call.originalText, call.result, 1, 0, <<>>) = call.newText
    /\ \A i \in 1..Len(call.result) :
         LET op == call.result[i]
         IN IF op.type = "delete"
            THEN 0 <= op.startPos /\ op.startPos < op.endPos
                 /\ op.endPos <= Len(call.originalText)
            ELSE 0 <= op.insertAfterPos /\ op.insertAfterPos <= Len(call.originalText)

\* a replacement followed by a later deletion: "a bb" becomes "bb "
C20_Witness ==
  /\ call.fn = "calculateDiff" /\ call.done
  /\ call.originalText = <<"a", " ", "b", "b">>
  /\ call.newText = <<"b", "b", " ">>
  /\ call.result = <<[type |-> "delete", startPos |-> 0, endPos |-> 1],
                      [type |-> "insert", text |-> <<"b", "b">>, insertAfterPos |-> 1],
                      [type |-> "delete", startPos |-> 2, endPos |-> 4]>>

\* the Requests among the messages, in order
RequestsOf(messages) == SelectSeq(messages, LAMBDA m : m.type = REQUEST)

\* C21: every call() allocates a fresh positive id greater than all ids
\* allocated before; for any number of concurrent calls and any order of their
\* Responses each call's future is settled exactly once, by the Response
\* carrying its own id (rejected when its error is set, resolved with its
\* result otherwise), never by a Response carrying another id.
C21_ResponsesCorrelatedById ==
  /\ [](session.phase # "none" =>
          LET requests == RequestsOf(session.enqueued)
          IN /\ Len(requests) = Len(session.futures)
             /\ \A k \in 1..Len(requests) :
                  /\ requests[k].id > 0
                  /\ \A j \in 1..(k - 1) : requests[j].id < requests[k].id
                  /\ LET future == session.futures[k]
                     IN /\ future.state # "pending" => future.by = requests[k].id
                        /\ future.state = "rejected" =>
                             future.error # Null /\ future.result = Null
                        /\ future.state = "resolved" =>
                             future.error = Null /\ future.result = "r")
  /\ [][session.phase # "none" =>
          \A k \in 1..Len(session.futures) :
            /\ session.futures[k].state # "pending" =>
                 session.futures'[k] = session.futures[k]
            /\ session.futures'[k] # session.futures[k] =>
                 /\ session'.lastMessage.type = RESPONSE
                 /\ session'.lastMessage.id = RequestsOf(session.enqueued)[k].id
                 /\ session'.received = session.received + 1]_vars

\* two calls are pending together and the Response of the later one arrives
\* first: the later call is resolved while the earlier one is still pending
C21_Witness ==
  /\ session.phase = "ready"
  /\ Len(session.futures) = 4
  /\ session.futures[3].state = "pending"
  /\ session.futures[4].state = "resolved" /\ session.futures[4].by = 4

\* C22: a transport-level error on the stream is fatal to the session: every
\* call future pending at that moment is rejected, and the session does not
\* reconnect.
C22_TransportErrorRejectsPending ==
  [][session.phase # "none" =>
       /\ (session.transport = "open" /\ session'.transport # "open") =>
            \A k \in 1..Len(session.futures) :
              session.futures[k].state = "pending" =>
                session'.futures[k].state = "rejected"
       /\ session.transport # "open" => session'.transport = session.transport]_vars

\* the Responses among the messages, in order
ResponsesOf(messages) == SelectSeq(messages, LAMBDA m : m.type = RESPONSE)

\* the Responses written to the stream that carry the id
WrittenResponses(id) == SelectSeq(session.stream, LAMBDA m : m.type = RESPONSE /\ m.id = id)

\* an inbound message is dispatched in this step
Dispatches(type) ==
  /\ session'.received = session.received + 1
  /\ session'.lastMessage.type = type

\* C23: an inbound Request with id i for a method without a handler gets an
\* error Response with id i and error "no handler for <method>" at once; with
\* a handler exactly one Response with id i is sent once the handler settles,
\* with a null error and the result on success, the failure's description and
\* a null result on failure.  No inbound Request is answered twice or with
\* another id.
C23_OneResponsePerRequest ==
  /\ [](session.phase # "none" =>
          /\ \A j \in 1..Len(session.inboundRequests) :
               LET request == session.inboundRequests[j]
                   responses == WrittenResponses(request.id)
               IN /\ Len(responses) = (IF request.status = "answered" THEN 1 ELSE 0)
                  /\ \A i \in 1..Len(responses) :
                       \/ responses[i].error = Null /\ responses[i].result = "ok"
                       \/ responses[i].error # Null /\ responses[i].result = Null
          /\ \A i \in 1..Len(session.stream) :
               session.stream[i].type = RESPONSE =>
                 \E j \in 1..Len(session.inboundRequests) :
                   session.inboundRequests[j].id = session.stream[i].id)
  /\ [][session.phase # "none" =>
          /\ Dispatches(REQUEST) =>
               LET message == session'.lastMessage
               IN IF message.method \in session.requestHandlers
                  THEN session'.stream = session.stream
                  ELSE session'.stream =
                         Append(session.stream,
                                [type |-> RESPONSE, id |-> message.id,
                                 error |-> IF message.method = "x"
                                           THEN "no handler for x"
                                           ELSE "no handler for m",
                                 result |-> Null])
          /\ Len(ResponsesOf(session'.stream)) # Len(ResponsesOf(session.stream)) =>
               \/ Dispatches(REQUEST)
               \/ \E j \in 1..Len(session.inboundRequests) :
                    /\ session.inboundRequests[j].status = "running"
                    /\ session'.inboundRequests[j].status = "answered"
                    /\ session'.stream[Len(session'.stream)].id = session.inboundRequests[j].id
                    /\ session'.stream[Len(session'.stream)].error \in {Null, "Error: failed"}]_vars

\* a Request without a handler was refused and a later one was answered by
\* its handler
C23_Witness ==
  /\ session.phase = "ready"
  /\ Len(session.inboundRequests) = 2
  /\ session.inboundRequests[1].method = "x"
  /\ session.inboundRequests[2].method = "m"
  /\ ResponsesOf(session.stream) =
       <<[type |-> RESPONSE, id |-> 1, error |-> "no handler for x", result |-> Null],
         [type |-> RESPONSE, id |-> 2, error |-> Null, result |-> "ok"]>>

\* the j-th inbound Request has a pending handler that awaits its own call k
AwaitsCall(j, k) ==
  /\ j \in 1..Len(session.inboundRequests)
  /\ session.inboundRequests[j].status = "running"
  /\ session.inboundRequests[j].awaiting = k

\* C24: while the handler of an inbound Request is pending, later inbound
\* messages are still dispatched: a Response settles its call future and a
\* Notification invokes its handlers.  Hence a request handler that itself
\* issues call() and awaits the result completes once the host answers (the
\* host answers unless the transport fails or the bound on inbound messages
\* is reached).
C24_Pipelining ==
  /\ [][\A j \in 1..MaxInbound : \A k \in 1..MaxReqId :
          AwaitsCall(j, k) =>
            /\ (Dispatches(RESPONSE) /\ session'.lastMessage.id = k
                   /\ session.futures[k].state = "pending") =>
                 session'.futures[k].state # "pending"
            /\ Dispatches(NOTIFY) =>
                 session'.invoked = session.invoked \o
                   [i \in 1..Len(session.notificationHandlers[session'.lastMessage.method])
                      |-> <<session'.lastMessage.method,
                            session.notificationHandlers[session'.lastMessage.method][i]>>]]_vars
  /\ (\E j \in 1..MaxInbound : \E k \in 1..MaxReqId : AwaitsCall(j, k))
       ~> \/ \A j \in 1..Len(session.inboundRequests) :
               session.inboundRequests[j].awaiting # 0 =>
                 session.inboundRequests[j].status = "answered"
          \/ session.transport # "open"
          \/ session.received = MaxInbound

\* a handler awaits its call, the Response has arrived and settled it, and a
\* Notification was dispatched to a registered handler after that, the
\* handler still pending
C24_Witness ==
  /\ \E j \in 1..MaxInbound : \E k \in 1..MaxReqId :
       AwaitsCall(j, k) /\ session.futures[k].state = "resolved"
  /\ session.lastMessage.type = NOTIFY
  /\ session.received = 5
  /\ Len(session.invoked) = 1

\* no call with this id is pending
NoPendingCall(id) ==
  id \notin 1..Len(session.futures) \/ session.futures[id].state # "pending"

\* C25: a Response whose id matches no pending call (an unknown id or the id
\* of a call already settled) is dropped: no future is settled, no handler is
\* invoked, no message is sent; later messages are processed normally.
C25_UnknownResponseDropped ==
  [][(session.phase # "none" /\ Dispatches(RESPONSE)
        /\ NoPendingCall(session'.lastMessage.id)) =>
       /\ session'.futures = session.futures
       /\ session'.invoked = session.invoked
       /\ session'.inboundRequests = session.inboundRequests
       /\ session'.stream = session.stream
       /\ session'.messageOutQueue = session.messageOutQueue
       /\ session'.emitter = session.emitter
       /\ session'.phase = session.phase
       /\ session'.transport = session.transport]_vars

\* a second Response for a call that was resolved (this one with an error)
\* has been dropped, and the call after it is still pending
C25_Witness ==
  /\ session.phase = "ready"
  /\ session.lastMessage.type = RESPONSE
  /\ session.lastMessage.id = 2
  /\ session.lastMessage.error = "e"
  /\ session.futures[2].state = "resolved"
  /\ Len(session.futures) = 3
  /\ session.futures[3].state = "pending"

\* C26: all outbound messages (Requests of call, Notifications of notify,
\* Responses to inbound Requests) go through one write path and are written to
\* the stream one at a time in exactly the order in which they were enqueued;
\* none is lost, duplicated or overtaken by a later one, although Responses
\* are inserted at the front of the queue.
C26_WrittenInEnqueueOrder ==
  /\ [](session.phase # "none" =>
          /\ session.stream = session.enqueued
          /\ session.messageOutQueue = <<>>)
  /\ [][session.phase # "none" =>
          /\ Len(session'.stream) \in {Len(session.stream), Len(session.stream) + 1}
          /\ SubSeq(session'.stream, 1, Len(session.stream)) = session.stream]_vars

\* a Response was written between the Requests of the handshake and a later
\* Notification and Request of the owner
C26_Witness ==
  /\ Len(session.stream) = 5
  /\ session.stream[1].type = REQUEST
  /\ session.stream[2].type = RESPONSE
  /\ session.stream[3].type = REQUEST
  /\ session.stream[4].type = NOTIFY
  /\ session.stream[5].type = REQUEST

\* the position of the first Request with the method among the messages, 0
\* when there is none
FirstRequest(messages, method) ==
  LET at == {i \in 1..Len(messages) :
               messages[i].type = REQUEST /\ messages[i].method = method}
  IN IF at = {} THEN 0 ELSE CHOOSE i \in at : \A j \in at : i <= j

\* C27: attach sends the self-identification request first, the channel
\* metadata query only after the identification's Response has arrived, and
\* exposes the session object (with the channel id of the metadata Response)
\* only after both have completed; no call or notify of the owner is written
\* to the stream before the handshake has finished.
C27_HandshakeOrder ==
  session.phase # "none" =>
    LET requests == RequestsOf(session.stream)
        owners == {i \in 1..Len(session.stream) :
                     \/ session.stream[i].type = NOTIFY
                     \/ /\ session.stream[i].type = REQUEST
                        /\ session.stream[i].method \notin
                             {"nvim_set_client_info", "nvim_get_api_info"}}
    IN /\ requests # <<>> => requests[1].method = "nvim_set_client_info"
       /\ Len(requests) >= 2 =>
            /\ requests[2].method = "nvim_get_api_info"
            /\ session.futures[1].state = "resolved"
       /\ session.phase = "ready" =>
            /\ Len(requests) >= 2
            /\ session.futures[1].state = "resolved"
            /\ session.futures[2].state = "resolved"
            /\ session.channelId = session.futures[2].result
            /\ session.channelId # Null
       /\ owners # {} =>
            /\ session.phase = "ready"
            /\ \A i \in owners :
                 FirstRequest(session.stream, "nvim_get_api_info") \in 1..(i - 1)

\* the session is exposed and its owner has called and notified
C27_Witness ==
  /\ session.phase = "ready"
  /\ session.channelId = "r"
  /\ Len(RequestsOf(session.stream)) = 3
  /\ \E i \in 1..Len(session.stream) : session.stream[i].type = NOTIFY

\* C28: for every inbound Notification all handlers registered with
\* onNotification for its name are invoked synchronously, each exactly once,
\* in registration order, before the next inbound message is dispatched; a
\* Notification with no registered handler is dropped without any reply.
C28_NotificationHandlersInOrder ==
  [][session.phase # "none" =>
       /\ Dispatches(NOTIFY) =>
            LET name == session'.lastMessage.method
                registered == session.notificationHandlers[name]
            IN /\ Len(session'.invoked) = Len(session.invoked) + Len(registered)
               /\ SubSeq(session'.invoked, 1, Len(session.invoked)) = session.invoked
               /\ \A i \in 1..Len(registered) :
                    session'.invoked[Len(session.invoked) + i] = <<name, registered[i]>>
               /\ \A i, j \in 1..Len(registered) : i # j => registered[i] # registered[j]
               /\ session'.stream = session.stream
               /\ session'.messageOutQueue = session.messageOutQueue
               /\ session'.futures = session.futures
               /\ session'.inboundRequests = session.inboundRequests
       /\ session'.invoked # session.invoked => Dispatches(NOTIFY)
       /\ \A name \in Names :
            /\ Len(session'.notificationHandlers[name]) >= Len(session.notificationHandlers[name])
            /\ SubSeq(session'.notificationHandlers[name], 1,
                      Len(session.notificationHandlers[name]))
                 = session.notificationHandlers[name]]_vars

\* a Notification found two handlers and both were invoked, first registered
\* first
C28_Witness ==
  /\ session.lastMessage = [type |-> NOTIFY, method |-> "n"]
  /\ session.received > 0
  /\ session.notificationHandlers["n"] = <<1, 2>>
  /\ session.invoked = <<<<"n", 1>>, <<"n", 2>>>>

\* the host calls that modify a buffer
BufferModifying == {"nvim_buf_set_text", "nvim_buf_set_lines"}

\* the host calls of the current request that modify a buffer
ModifyingCalls(c) == {k \in 1..Len(c.hostCalls) : c.hostCalls[k] \in BufferModifying}

NLCount(text) == Cardinality({i \in 1..Len(text) : text[i] = NL})

\* {startLine, endLine} names existing lines of a buffer of n lines, or the
\* place before startLine (endLine = startLine - 1)
ValidRange(input, n) ==
  /\ 1 <= input.startLine /\ input.startLine <= n + 1
  /\ input.startLine - 1 <= input.endLine /\ input.endLine <= n

\* C30: applying {startLine, endLine, replace} (1-indexed, endLine inclusive)
\* replaces exactly the buffer lines startLine..endLine with the lines of
\* replace and leaves every other line unchanged; with endLine = startLine - 1
\* the lines of replace are inserted before startLine and no line is removed;
\* with replace empty the lines are removed and nothing is inserted.  (A
\* buffer of which every line was removed shows as one empty line.)
C30_LineRangeEdit ==
  [][(/\ call.fn = "violetInlineEdit"
      /\ call.pc = "set_lines" /\ call'.pc # "set_lines"
      /\ ValidRange(call.input, Len(call.lines))) =>
       LET old == call.lines
           new == call'.lines
           s == call.input.startLine
           e == call.input.endLine
           replace == call.input.replace
           n == Len(old)
           removed == e - s + 1
           k == IF replace = <<>> THEN 0 ELSE NLCount(replace) + 1
       IN /\ call'.applied
          /\ IF n - removed + k = 0 THEN new = <<(<<>>)>>
             ELSE /\ Len(new) = n - removed + k
                  /\ \A i \in 1..(s - 1) : new[i] = old[i]
                  /\ \A i \in (e + 1)..n : new[i - removed + k] = old[i]
                  /\ k > 0 =>
                       /\ Join(SubSeq(new, s, s + k - 1), <<NL>>) = replace
                       /\ \A i \in s..(s + k - 1) : NLCount(new[i]) = 0
          /\ e = s - 1 => \A i \in 1..n : \E j \in 1..Len(new) : new[j] = old[i]
          /\ replace = <<>> /\ n - removed > 0 =>
               new = SubSeq(old, 1, s - 1) \o SubSeq(old, e + 1, n)]_vars

\* two lines were inserted before line 2 of a buffer of three lines
C30_Witness ==
  /\ call.fn = "violetInlineEdit"
  /\ call.pc = "idle"
  /\ call.applied
  /\ call.before = <<EditLine(1), EditLine(2), EditLine(3)>>
  /\ call.input = [startLine |-> 2, endLine |-> 1, replace |-> <<"x", NL, "y">>]
  /\ call.lines = <<EditLine(1), <<"x">>, <<"y">>, EditLine(2), EditLine(3)>>

\* the position of an operation in the original text, and the position the
\* original text is consumed up to once the operation is done
StartOf(op) == IF op.type = "delete" THEN op.startPos ELSE op.insertAfterPos
EndOf(op) == IF op.type = "delete" THEN op.endPos ELSE op.insertAfterPos

\* the length of the common parts after the last added or removed part
RECURSIVE RetainedTail(_)
RetainedTail(changes) ==
  IF changes = <<>> THEN 0
  ELSE LET last == changes[Len(changes)]
       IN IF last.added \/ last.removed THEN 0
          ELSE Len(last.value) + RetainedTail(SubSeq(changes, 1, Len(changes) - 1))

\* C31: the operations of calculateDiff are in coordinates of the original
\* text: in emission order their positions are non-decreasing, every Delete
\* has 0 <= startPos < endPos <= length(original), Delete ranges are pairwise
\* disjoint, an Insert consumes nothing of the original (the next operation
\* starts at or after its anchor, a Delete after a Delete at or after its
\* end), and the position after the last operation plus the retained text
\* that follows it is length(original).
C31_OriginalCoordinates ==
  (call.fn = "calculateDiff" /\ call.done) =>
    LET ops == call.result
        n == Len(call.originalText)
    IN /\ \A i \in 1..Len(ops) :
            /\ 0 <= StartOf(ops[i]) /\ EndOf(ops[i]) <= n
            /\ ops[i].type = "delete" => ops[i].startPos < ops[i].endPos
            /\ ops[i].type = "insert" => EndOf(ops[i]) = StartOf(ops[i])
       /\ \A i \in 1..(Len(ops) - 1) : EndOf(ops[i]) <= StartOf(ops[i + 1])
       /\ \A i, j \in 1..Len(ops) :
            (i < j /\ ops[i].type = "delete" /\ ops[j].type = "delete") =>
              ops[i].endPos <= ops[j].startPos
       /\ Len(ops) = Cardinality({i \in 1..Len(call.changes) :
                                    call.changes[i].added \/ call.changes[i].removed})
       /\ (IF ops = <<>> THEN 0 ELSE EndOf(ops[Len(ops)]))
            + RetainedTail(call.changes) = n

\* a space is inserted after "a" and the space that follows is deleted; "bb"
\* is retained after the last operation
C31_Witness ==
  /\ call.fn = "calculateDiff" /\ call.done
  /\ call.originalText = <<"a", " ", "b", "b">>
  /\ call.result = <<[type |-> "insert", text |-> <<" ">>, insertAfterPos |-> 1],
                      [type |-> "delete", startPos |-> 1, endPos |-> 2]>>
  /\ RetainedTail(call.changes) = 2

\* what is registered in the host and recorded on the editor side, the count
\* of calls and the last call left out
Registrations(h) ==
  <<h.esc_mappings, h.text_changed_autocmds, h.keymaps, h.augroups, h.autocmds>>

\* C32: the host-side prediction listeners are idempotent per buffer: after
\* any sequence of setup_prediction_esc_mapping / listen_for_text_changed and
\* their cleanups a buffer has at most one escape mapping and at most one
\* text-changed listener group (with one autocmd), recorded exactly when it
\* is registered; a setup while registered is a no-op, a setup otherwise
\* registers, a cleanup removes the registration, a cleanup with nothing
\* registered is a no-op, and no call touches another buffer.
C32_ListenersIdempotent ==
  /\ [](call.fn = "listeners" =>
          \A b \in Bufs :
            /\ Cardinality(call.keymaps[b]) <= 1
            /\ Cardinality(call.autocmds[b]) <= 1
            /\ call.esc_mappings[b] <=> call.keymaps[b] # {}
            /\ call.text_changed_autocmds[b] = call.augroups[b]
            /\ call.augroups[b] # 0 <=> call.autocmds[b] # {}
            /\ \A c \in Bufs : (c # b /\ call.augroups[b] # 0) =>
                                 call.augroups[c] # call.augroups[b])
  /\ [][(call.fn = "listeners" /\ call'.calls = call.calls + 1) =>
          LET f == call'.last.f
              b == call'.last.bufnr
          IN /\ \A c \in Bufs \ {b} :
                  /\ call'.keymaps[c] = call.keymaps[c]
                  /\ call'.augroups[c] = call.augroups[c]
                  /\ call'.autocmds[c] = call.autocmds[c]
             /\ f = "setup_prediction_esc_mapping" =>
                  /\ call.esc_mappings[b] => Registrations(call') = Registrations(call)
                  /\ Cardinality(call'.keymaps[b]) = 1
                  /\ call'.augroups = call.augroups /\ call'.autocmds = call.autocmds
             /\ f = "cleanup_prediction_esc_mapping" =>
                  /\ ~call.esc_mappings[b] => Registrations(call') = Registrations(call)
                  /\ call'.keymaps[b] = {}
                  /\ call'.augroups = call.augroups /\ call'.autocmds = call.autocmds
             /\ f = "listen_for_text_changed" =>
                  /\ call.text_changed_autocmds[b] # 0 =>
                       Registrations(call') = Registrations(call)
                  /\ call'.augroups[b] # 0 /\ Cardinality(call'.autocmds[b]) = 1
                  /\ call'.keymaps = call.keymaps
             /\ f = "cleanup_listen_for_text_changed" =>
                  /\ call.text_changed_autocmds[b] = 0 =>
                       Registrations(call') = Registrations(call)
                  /\ call'.augroups[b] = 0 /\ call'.autocmds[b] = {}
                  /\ call'.keymaps = call.keymaps]_vars

\* listen, listen again, cleanup, cleanup again and listen for buffer 1: the
\* second group and its autocmd are the only ones
C32_Witness ==
  /\ call.fn = "listeners"
  /\ call.calls = 5
  /\ call.last = [f |-> "listen_for_text_changed", bufnr |-> 1]
  /\ call.augroups[1] = 3 /\ call.autocmds[1] = {4}
  /\ call.nextId = 5
  /\ \A b \in Bufs : call.keymaps[b] = {}
  /\ call.augroups[2] = 0

\* C33: accept never overwrites a concurrent host edit: when the host
\* executes the nvim_buf_set_lines of an accept, every line of the captured
\* window still equals the captured line, also when the user edits the buffer
\* after the host answered the verification read.
C33_AcceptNeverOverwritesEdit ==
  [][\A t \in 1..nTasks :
       (tasks[t].pc = "a_set" /\ Resumed(t)) => ~WindowDiffers(tasks[t].context)]_vars

\* the d-th notification was a dismiss that passed both checks of
\* dismissPrediction: the state was displaying-proposed-edit and the buffer
\* id was absent or the one of the state
EffectiveDismiss(d) ==
  /\ tasks[d].kind = "dismiss"
  /\ tasks[d].pc # "done" \/ tasks[d].result = "ok"

\* C34: a prediction that is dismissed is never applied afterwards.  With one
\* trigger before it (so one prediction was ever displayed), no notification
\* that arrived after an effective dismiss gets the buffer rewritten by
\* nvim_buf_set_lines, also when it arrives while the host calls of the
\* dismissal are pending.
C34_DismissedNeverApplied ==
  [][\A t \in 1..nTasks :
       (tasks[t].pc = "a_set" /\ Resumed(t)) =>
         ~ /\ Cardinality({k \in 1..(t - 1) : tasks[k].kind = "trigger"}) = 1
           /\ \E d \in 1..(t - 1) : EffectiveDismiss(d)]_vars

\* C35: whenever the controller state is idle and no controller operation is
\* in progress, no prediction decoration is rendered: renderedBufferId is
\* null and no buffer holds the in-progress marker or a preview.
C35_IdleMeansNoDecoration ==
  (state.type = "idle" /\ Active = {}) =>
    /\ renderedBufferId = 0
    /\ \A b \in Bufs : marks[b] = {}

\* C37: the host-side prediction-active flag is true only while a preview is
\* displayed: whenever no controller operation is in progress and the state
\* is idle or awaiting-reply, M._prediction.active is false.
C37_ActiveOnlyWhileDisplayed ==
  (Active = {} /\ state.type \in {"idle", "awaiting-reply"}) => ~predActive

\* C36: there is no timeout on the model call: the state leaves
\* awaiting-agent-reply only in a step of the handler whose model call is the
\* one of the current requestId and has resolved or rejected; as long as that
\* call is pending the state stays awaiting-agent-reply.
C36_LeavesAwaitingOnlyOnReply ==
  [][(state.type = "awaiting-agent-reply" /\ state'.type # "awaiting-agent-reply") =>
       \E t \in 1..nTasks :
         /\ Resumed(t)
         /\ tasks[t].requestId = state.requestId
         /\ tasks[t].reply # "none" \/ tasks'[t].reply # "none"]_vars

\* the lines of the buffer that follow the captured window
Below(context) == Max(0, Len(bufLines[context.bufferId]) - (context.endLine + 1))

\* the lines of the buffer that precede the captured window
Above(context) == Min(context.startLine, Len(bufLines[context.bufferId]))

Waiting(k) == call.on_ready_callback = k \/ k \in call.scheduled

\* C39: editor-side bootstrap.  The backend is launched at most once, and every
\* callback passed to when_ready is waiting, or has run exactly once with the
\* channel id set, or was discarded by the connection timeout: none is lost
\* silently and none runs twice.
C39_EveryCallbackAccounted ==
  call.fn = "when_ready" =>
    /\ call.jobs <= 1
    /\ \A k \in 1..call.passed :
         /\ call.ran[k] <= 1
         /\ call.ran[k] = 1 => call.channel_id # 0
         /\ Waiting(k) \/ call.ran[k] = 1 \/ k \in call.timedOut

\* the positions of the line breaks among the first p characters of text
NewlinesBefore(text, p) == {i \in 1..p : text[i] = NL}

\* the offset at which the line of the last line break before p begins
LineStartBefore(text, p) ==
  IF NewlinesBefore(text, p) = {} THEN 0
  ELSE CHOOSE i \in NewlinesBefore(text, p) : \A j \in NewlinesBefore(text, p) : j <= i

\* the offset in text of column col of the line r lines below the first
OffsetOfLineCol(text, r, col) ==
  LET breaks == NewlinesBefore(text, Len(text))
  IN IF r = 0 THEN col
     ELSE (CHOOSE i \in breaks : Cardinality({j \in breaks : j <= i}) = r) + col

\* C40: for a text and an offset p with 0 <= p <= length(text),
\* convertCharPosToLineCol(text, p, startLine, 0) returns the row whose
\* distance from startLine is the number of line breaks before p and the
\* column that counts the characters from the last line break before p (or
\* the start of the text) to p; mapping (row, col) back to an offset gives p.
C40_OffsetToLineCol ==
  (call.fn = "convertCharPosToLineCol" /\ call.done) =>
    LET text == call.text
        p == call.charPos
        r == call.result.row - call.startLine
    IN /\ r = Cardinality(NewlinesBefore(text, p))
       /\ call.result.col = p - LineStartBefore(text, p)
       /\ OffsetOfLineCol(text, r, call.result.col) = p

\* an offset on the third line of a text, in a window that begins at line 2
C40_Witness ==
  /\ call.fn = "convertCharPosToLineCol"
  /\ call.done
  /\ call.text = <<NL, "a", NL, "a">>
  /\ call.charPos = 4
  /\ call.startLine = 2
  /\ call.result = [row |-> 4, col |-> 1]

====
